---- MODULE Spec2Model ----
(***************************************************************************)
(* chschema: declarative ClickHouse schema reconciliation.                 *)
(* Model of the Differ (internal/diff), the DDL generator                  *)
(* (internal/sqlgen) and the engine parser (internal/introspection).       *)
(*                                                                         *)
(* Go strings are modelled as sequences of one-character strings, so that  *)
(* prefix tests, substring searches, quote-aware splitting and byte-wise   *)
(* ordering are computed the way the Go code computes them.                *)
(***************************************************************************)
EXTENDS Naturals, Integers, Sequences, FiniteSets, TLC

(***************************************************************************)
(* Bounds of the model.                                                    *)
(***************************************************************************)
MaxTables == 2
\* The largest number of actions of a plan handed to the generator and the
\* executor directly.
MaxActions == 2

(***************************************************************************)
(* Go strings                                                              *)
(***************************************************************************)
\* The character ` (code 96), which a TLA+ string cannot hold.
BackQuote == "<backquote>"

\* The printable ASCII characters in code order, 32 (space) .. 126 (~).
Ascii == <<" ","!","\"","#","$","%","&","'","(",")","*","+",",","-",".","/","0","1","2","3","4","5","6","7","8","9",":",";","<","=",">","?","@","A","B","C","D","E","F","G","H","I","J","K","L","M","N","O","P","Q","R","S","T","U","V","W","X","Y","Z","[","\\","]","^","_",BackQuote,"a","b","c","d","e","f","g","h","i","j","k","l","m","n","o","p","q","r","s","t","u","v","w","x","y","z","{","|","}","~">>

\* The byte value of a character.
Code(c) == IF c = "\n" THEN 10 ELSE 31 + (CHOOSE i \in 1..Len(Ascii) : Ascii[i] = c)

\* Go's < on strings: byte-wise lexicographic order.
StringLess(a, b) ==
    \E i \in 1..Len(b) :
        /\ i <= Len(a) + 1
        /\ \A j \in 1..(i - 1) : a[j] = b[j]
        /\ (i = Len(a) + 1 \/ Code(a[i]) < Code(b[i]))

\* s with x inserted after the elements that are not greater than x.
InsertSorted(x, s) ==
    LET k == Cardinality({i \in 1..Len(s) : ~ StringLess(x, s[i])})
    IN  SubSeq(s, 1, k) \o <<x>> \o SubSeq(s, k + 1, Len(s))

RECURSIVE Ascending(_)
\* The strings of s in ascending order.
Ascending(s) == IF s = <<>> THEN <<>> ELSE InsertSorted(Head(s), Ascending(Tail(s)))

\* A faulty variant of SortStrings: the slice is left as it was filled.
Unsorted(s) == s

\* sort.Strings
SortStrings(s) == Ascending(s)

\* The sequences that enumerate the set S, each element once: the orders in
\* which a range over a Go map with the keys S may visit them.
Orders(S) ==
    {s \in [1..Cardinality(S) -> S] : \A x \in S : \E i \in 1..Cardinality(S) : s[i] = x}

RECURSIVE Concat(_)
\* The concatenation of a sequence of sequences.
Concat(ss) == IF ss = <<>> THEN <<>> ELSE Head(ss) \o Concat(Tail(ss))

\* A nil pointer and a pointer to a value (optional protobuf fields).
Nil == <<>>
Ptr(v) == <<v>>
Deref(p) == p[1]

\* The outcomes of a call: a value with a nil error, an error, or a panic
\* (a failed unchecked type assertion).
Ok(v)     == [val |-> v, err |-> Nil, panic |-> FALSE]
Err(msg)  == [val |-> <<>>, err |-> Ptr(msg), panic |-> FALSE]
Panic     == [val |-> <<>>, err |-> Nil, panic |-> TRUE]

\* A Go interface{} value: the dynamic type and the value it holds.
Iface(type, value) == [type |-> type, value |-> value]
TypeTable  == "*chschema_v1.Table"
TypeColumn == "*chschema_v1.Column"
TypeString == "string"
TypeMap    == "map[string]interface {}"

(***************************************************************************)
(* Differ (package diff)                                                   *)
(***************************************************************************)
ActionCreateTable == <<"C","R","E","A","T","E","_","T","A","B","L","E">>
ActionDropTable   == <<"D","R","O","P","_","T","A","B","L","E">>
ActionAddColumn   == <<"A","D","D","_","C","O","L","U","M","N">>
ActionDropColumn  == <<"D","R","O","P","_","C","O","L","U","M","N">>

\* The index of the first column named name, 0 if there is none.
FirstColumnNamed(columns, name) ==
    IF \E i \in 1..Len(columns) : columns[i].Name = name
    THEN CHOOSE i \in 1..Len(columns) :
            /\ columns[i].Name = name
            /\ \A j \in 1..(i - 1) : columns[j].Name # name
    ELSE 0

\* Faulty variant of FindColumnByName: columns are matched by position.
FindColumnByPosition(columns, name) ==
    IF Len(columns) > 0 /\ columns[Len(columns)].Name = name
    THEN Ptr(columns[Len(columns)]) ELSE Nil

\* FindColumnByName: linear scan, the first column of that name or nil.
FindColumnByName(columns, name) ==
    IF FirstColumnNamed(columns, name) = 0 THEN Nil
    ELSE Ptr(columns[FirstColumnNamed(columns, name)])

\* listToMap / tablesToMap: the map keyed by table name; a later table of the
\* list overwrites an earlier one of the same name.
tablesToMap(tables) ==
    [n \in {tables[i].Name : i \in 1..Len(tables)} |->
        tables[CHOOSE i \in 1..Len(tables) :
                  /\ tables[i].Name = n
                  /\ \A j \in (i + 1)..Len(tables) : tables[j].Name # n]]

\* The Reason strings of the four kinds of action.
ReasonCreateTable(name) ==
    <<"T","a","b","l","e"," ">> \o name \o <<" ","i","s"," ","d","e","f","i","n","e","d"," ","i","n"," ","s","c","h","e","m","a"," ","b","u","t"," ","d","o","e","s"," ","n","o","t"," ","e","x","i","s","t"," ","i","n"," ","t","h","e"," ","d","a","t","a","b","a","s","e",".">>
ReasonDropTable(name) ==
    <<"T","a","b","l","e"," ">> \o name \o <<" ","e","x","i","s","t","s"," ","i","n"," ","t","h","e"," ","d","a","t","a","b","a","s","e"," ","b","u","t"," ","i","s"," ","n","o","t"," ","d","e","f","i","n","e","d"," ","i","n"," ","t","h","e"," ","s","c","h","e","m","a",".">>
ReasonAddColumn(table, column) ==
    <<"C","o","l","u","m","n"," ">> \o table \o <<".">> \o column \o <<" ","i","s"," ","d","e","f","i","n","e","d"," ","i","n"," ","s","c","h","e","m","a"," ","b","u","t"," ","d","o","e","s"," ","n","o","t"," ","e","x","i","s","t"," ","i","n"," ","t","h","e"," ","t","a","b","l","e",".">>
ReasonDropColumn(table, column) ==
    <<"C","o","l","u","m","n"," ">> \o table \o <<".">> \o column \o <<" ","e","x","i","s","t","s"," ","i","n"," ","t","h","e"," ","t","a","b","l","e"," ","b","u","t"," ","i","s"," ","n","o","t"," ","d","e","f","i","n","e","d"," ","i","n"," ","t","h","e"," ","s","c","h","e","m","a",".">>

\* The columns of xs that FindColumnByName does not find in ys, in xs' order.
ColumnsNotIn(xs, ys) ==
    SelectSeq(xs, LAMBDA c : FindColumnByName(ys, c.Name) = Nil)

\* Faulty variant of ColumnsToAdd: a same-named column with changed attributes
\* counts as missing.
ColumnsToAddOrAlter(desiredTable, currentTable) ==
    SelectSeq(desiredTable.Columns,
              LAMBDA c : FindColumnByName(currentTable.Columns, c.Name) # Ptr(c))

\* Faulty variant of ColumnsToAdd: the columns to add are sorted by name.
ColumnsToAddSorted(desiredTable, currentTable) ==
    LET add   == ColumnsNotIn(desiredTable.Columns, currentTable.Columns)
        names == SortStrings([i \in 1..Len(add) |-> add[i].Name])
    IN  [i \in 1..Len(names) |-> Deref(FindColumnByName(add, names[i]))]

\* compareColumns, first loop: the desired columns the current table lacks.
ColumnsToAdd(desiredTable, currentTable) ==
    ColumnsNotIn(desiredTable.Columns, currentTable.Columns)

\* A faulty variant of ColumnsToDrop: a column is looked up in the table it
\* comes from, so that no column is ever dropped.
ColumnsToDropNever(desiredTable, currentTable) ==
    ColumnsNotIn(currentTable.Columns, currentTable.Columns)

\* compareColumns, second loop: the current columns the desired table lacks.
ColumnsToDrop(desiredTable, currentTable) ==
    ColumnsNotIn(currentTable.Columns, desiredTable.Columns)

\* Faulty variant of compareColumns: the drops are emitted before the adds.
compareColumnsDropFirst(desiredTable, currentTable) ==
    LET add  == ColumnsToAdd(desiredTable, currentTable)
        drop == ColumnsToDrop(desiredTable, currentTable)
    IN  [i \in 1..Len(drop) |->
            [Type    |-> ActionDropColumn,
             Payload |-> Iface(TypeMap, [table       |-> Iface(TypeString, desiredTable.Name),
                                         column_name |-> Iface(TypeString, drop[i].Name)]),
             Reason  |-> ReasonDropColumn(desiredTable.Name, drop[i].Name)]]
        \o
        [i \in 1..Len(add) |->
            [Type    |-> ActionAddColumn,
             Payload |-> Iface(TypeMap, [table  |-> Iface(TypeString, desiredTable.Name),
                                         column |-> Iface(TypeColumn, add[i])]),
             Reason  |-> ReasonAddColumn(desiredTable.Name, add[i].Name)]]

\* A faulty variant of compareColumns: the payload of a DROP_COLUMN action is
\* the bare column name.
compareColumnsBareName(desiredTable, currentTable) ==
    LET add  == ColumnsToAdd(desiredTable, currentTable)
        drop == ColumnsToDrop(desiredTable, currentTable)
    IN  [i \in 1..Len(add) |->
            [Type    |-> ActionAddColumn,
             Payload |-> Iface(TypeMap, [table  |-> Iface(TypeString, desiredTable.Name),
                                         column |-> Iface(TypeColumn, add[i])]),
             Reason  |-> ReasonAddColumn(desiredTable.Name, add[i].Name)]]
        \o
        [i \in 1..Len(drop) |->
            [Type    |-> ActionDropColumn,
             Payload |-> Iface(TypeString, drop[i].Name),
             Reason  |-> ReasonDropColumn(desiredTable.Name, drop[i].Name)]]

\* compareColumns: the actions appended for a table present in both states.
compareColumns(desiredTable, currentTable) ==
    LET add  == ColumnsToAdd(desiredTable, currentTable)
        drop == ColumnsToDrop(desiredTable, currentTable)
    IN  [i \in 1..Len(add) |->
            [Type    |-> ActionAddColumn,
             Payload |-> Iface(TypeMap, [table  |-> Iface(TypeString, desiredTable.Name),
                                         column |-> Iface(TypeColumn, add[i])]),
             Reason  |-> ReasonAddColumn(desiredTable.Name, add[i].Name)]]
        \o
        [i \in 1..Len(drop) |->
            [Type    |-> ActionDropColumn,
             Payload |-> Iface(TypeMap, [table       |-> Iface(TypeString, desiredTable.Name),
                                         column_name |-> Iface(TypeString, drop[i].Name)]),
             Reason  |-> ReasonDropColumn(desiredTable.Name, drop[i].Name)]]

\* compareTables, first loop: the tables to create, in sorted order.
TablesToCreate(desiredMap, currentMap, desiredTableNames) ==
    LET names == SelectSeq(desiredTableNames, LAMBDA n : n \notin DOMAIN currentMap)
    IN  [i \in 1..Len(names) |->
            [Type    |-> ActionCreateTable,
             Payload |-> Iface(TypeTable, desiredMap[names[i]]),
             Reason  |-> ReasonCreateTable(names[i])]]

\* A faulty variant of TablesToDrop: a table is looked up in the map it comes
\* from, so that nothing is ever dropped.
TablesToDropNever(desiredMap, currentMap, currentTableNames) ==
    LET names == SelectSeq(currentTableNames, LAMBDA n : n \notin DOMAIN currentMap)
    IN  [i \in 1..Len(names) |->
            [Type    |-> ActionDropTable,
             Payload |-> Iface(TypeString, names[i]),
             Reason  |-> ReasonDropTable(names[i])]]

\* compareTables, second loop: the tables to drop, in sorted order.
TablesToDrop(desiredMap, currentMap, currentTableNames) ==
    LET names == SelectSeq(currentTableNames, LAMBDA n : n \notin DOMAIN desiredMap)
    IN  [i \in 1..Len(names) |->
            [Type    |-> ActionDropTable,
             Payload |-> Iface(TypeString, names[i]),
             Reason  |-> ReasonDropTable(names[i])]]

\* A faulty variant of TablesToModify: a desired table the database does not
\* have is compared with a table without columns.
TablesToModifyMissing(desiredMap, currentMap, desiredTableNames) ==
    Concat([i \in 1..Len(desiredTableNames) |->
               compareColumns(desiredMap[desiredTableNames[i]],
                              IF desiredTableNames[i] \in DOMAIN currentMap
                              THEN currentMap[desiredTableNames[i]]
                              ELSE [desiredMap[desiredTableNames[i]] EXCEPT !.Columns = <<>>])])

\* compareTables, third loop: the column actions of the tables in both states.
TablesToModify(desiredMap, currentMap, desiredTableNames) ==
    LET names == SelectSeq(desiredTableNames, LAMBDA n : n \in DOMAIN currentMap)
    IN  Concat([i \in 1..Len(names) |->
                   compareColumns(desiredMap[names[i]], currentMap[names[i]])])

\* The orders in which compareTables' two range loops may visit the keys of
\* desiredMap and currentMap.
IterationOrders(desired, current) ==
    [desired : Orders(DOMAIN tablesToMap(desired.Tables)),
     current : Orders(DOMAIN tablesToMap(current.Tables))]

\* A faulty variant of compareTables: the drops are emitted before the creates.
compareTablesDropFirst(desired, current, iter) ==
    LET desiredMap == tablesToMap(desired.Tables)
        currentMap == tablesToMap(current.Tables)
        desiredTableNames == SortStrings(iter.desired)
        currentTableNames == SortStrings(iter.current)
    IN  TablesToDrop(desiredMap, currentMap, currentTableNames)
        \o TablesToCreate(desiredMap, currentMap, desiredTableNames)
        \o TablesToModify(desiredMap, currentMap, desiredTableNames)

\* compareTables: the actions appended to the plan, when the range loops over
\* the two maps visit their keys in the orders iter.desired and iter.current.
compareTables(desired, current, iter) ==
    LET desiredMap == tablesToMap(desired.Tables)
        currentMap == tablesToMap(current.Tables)
        desiredTableNames == SortStrings(iter.desired)
        currentTableNames == SortStrings(iter.current)
    IN  TablesToCreate(desiredMap, currentMap, desiredTableNames)
        \o TablesToDrop(desiredMap, currentMap, currentTableNames)
        \o TablesToModify(desiredMap, currentMap, desiredTableNames)

\* Differ.Plan: the plan and a nil error.
Plan(desired, current, iter) == Ok([Actions |-> compareTables(desired, current, iter)])

(***************************************************************************)
(* DDL generator (package sqlgen)                                          *)
(***************************************************************************)
RECURSIVE Join(_, _)
\* strings.Join
Join(elems, sep) ==
    IF elems = <<>> THEN <<>>
    ELSE IF Len(elems) = 1 THEN elems[1]
    ELSE elems[1] \o sep \o Join(Tail(elems), sep)

Digits == <<"0","1","2","3","4","5","6","7","8","9">>

RECURSIVE Itoa(_)
\* fmt's %d of a non-negative integer.
Itoa(n) == IF n < 10 THEN <<Digits[n + 1]>>
           ELSE Itoa(n \div 10) \o <<Digits[(n % 10) + 1]>>

\* The engine variants (the oneof Engine.engine_type); NoEngine is the nil
\* *Engine and UnsetEngine an Engine whose oneof is not set.
NoEngine    == [EngineType |-> "<nil>"]
UnsetEngine == [EngineType |-> "<unset>"]

\* The protobuf getters: engine.GetX() # nil.
Has(engine, variant) == engine.EngineType = variant

\* A Go map[string]string is the sequence of its entries [key, value], keys
\* distinct, in the order a range over it visits them.  m[key]:
MapGet(m, key) == m[CHOOSE i \in 1..Len(m) : m[i].key = key].value

GenerateEngineString(engine) ==
    IF engine = NoEngine THEN <<"M","e","r","g","e","T","r","e","e","(",")">>
    ELSE IF Has(engine, "MergeTree") THEN <<"M","e","r","g","e","T","r","e","e","(",")">>
    ELSE IF Has(engine, "ReplicatedMergeTree")
    THEN <<"R","e","p","l","i","c","a","t","e","d","M","e","r","g","e","T","r","e","e","(","'">> \o engine.ZooPath \o <<"'",","," ","'">> \o engine.ReplicaName \o <<"'",")">>
    ELSE IF Has(engine, "ReplacingMergeTree")
    THEN IF engine.VersionColumn # Nil
         THEN <<"R","e","p","l","a","c","i","n","g","M","e","r","g","e","T","r","e","e","(">> \o Deref(engine.VersionColumn) \o <<")">>
         ELSE <<"R","e","p","l","a","c","i","n","g","M","e","r","g","e","T","r","e","e","(",")">>
    ELSE IF Has(engine, "ReplicatedReplacingMergeTree")
    THEN IF engine.VersionColumn # Nil
         THEN <<"R","e","p","l","i","c","a","t","e","d","R","e","p","l","a","c","i","n","g","M","e","r","g","e","T","r","e","e","(","'">> \o engine.ZooPath \o <<"'",","," ","'">>
              \o engine.ReplicaName \o <<"'",","," ">> \o Deref(engine.VersionColumn) \o <<")">>
         ELSE <<"R","e","p","l","i","c","a","t","e","d","R","e","p","l","a","c","i","n","g","M","e","r","g","e","T","r","e","e","(","'">> \o engine.ZooPath \o <<"'",","," ","'">>
              \o engine.ReplicaName \o <<"'",")">>
    ELSE IF Has(engine, "SummingMergeTree")
    THEN IF Len(engine.SumColumns) > 0
         THEN <<"S","u","m","m","i","n","g","M","e","r","g","e","T","r","e","e","(","(">> \o Join(engine.SumColumns, <<","," ">>) \o <<")",")">>
         ELSE <<"S","u","m","m","i","n","g","M","e","r","g","e","T","r","e","e","(",")">>
    ELSE IF Has(engine, "CollapsingMergeTree")
    THEN <<"C","o","l","l","a","p","s","i","n","g","M","e","r","g","e","T","r","e","e","(">> \o engine.SignColumn \o <<")">>
    ELSE IF Has(engine, "ReplicatedCollapsingMergeTree")
    THEN <<"R","e","p","l","i","c","a","t","e","d","C","o","l","l","a","p","s","i","n","g","M","e","r","g","e","T","r","e","e","(","'">> \o engine.ZooPath \o <<"'",","," ","'">>
         \o engine.ReplicaName \o <<"'",","," ">> \o engine.SignColumn \o <<")">>
    ELSE IF Has(engine, "AggregatingMergeTree") THEN <<"A","g","g","r","e","g","a","t","i","n","g","M","e","r","g","e","T","r","e","e","(",")">>
    ELSE IF Has(engine, "ReplicatedAggregatingMergeTree")
    THEN <<"R","e","p","l","i","c","a","t","e","d","A","g","g","r","e","g","a","t","i","n","g","M","e","r","g","e","T","r","e","e","(","'">> \o engine.ZooPath \o <<"'",","," ","'">>
         \o engine.ReplicaName \o <<"'",")">>
    ELSE IF Has(engine, "Distributed")
    THEN IF engine.ShardingKey # Nil
         THEN <<"D","i","s","t","r","i","b","u","t","e","d","(">> \o engine.ClusterName \o <<","," ">> \o engine.RemoteDatabase
              \o <<","," ">> \o engine.RemoteTable \o <<","," ">> \o Deref(engine.ShardingKey) \o <<")">>
         ELSE <<"D","i","s","t","r","i","b","u","t","e","d","(">> \o engine.ClusterName \o <<","," ">> \o engine.RemoteDatabase
              \o <<","," ">> \o engine.RemoteTable \o <<")">>
    ELSE IF Has(engine, "Log") THEN <<"L","o","g","(",")">>
    ELSE IF Has(engine, "Kafka")
    THEN <<"K","a","f","k","a","(","'">> \o Join(engine.BrokerList, <<",">>) \o <<"'",","," ","'">> \o engine.Topic
         \o <<"'",","," ","'">> \o engine.ConsumerGroup \o <<"'",","," ","'">> \o engine.Format \o <<"'",")">>
    ELSE <<"M","e","r","g","e","T","r","e","e","(",")">>

\* A faulty variant of ColumnModifiers: the comment comes before the default
\* and the codec.
ColumnModifiersCommentFirst(col) ==
    (IF col.Comment # Nil /\ Deref(col.Comment) # <<>>
     THEN <<" ","C","O","M","M","E","N","T"," ","'">> \o Deref(col.Comment) \o <<"'">> ELSE <<>>)
    \o (IF col.DefaultExpression # Nil /\ Deref(col.DefaultExpression) # <<>>
        THEN <<" ","D","E","F","A","U","L","T"," ">> \o Deref(col.DefaultExpression) ELSE <<>>)
    \o (IF col.Codec # Nil /\ Deref(col.Codec) # <<>>
        THEN <<" ">> \o Deref(col.Codec) ELSE <<>>)

\* The optional clauses of a column: DEFAULT, codec, COMMENT.
ColumnModifiers(col) ==
    (IF col.DefaultExpression # Nil /\ Deref(col.DefaultExpression) # <<>>
     THEN <<" ","D","E","F","A","U","L","T"," ">> \o Deref(col.DefaultExpression) ELSE <<>>)
    \o (IF col.Codec # Nil /\ Deref(col.Codec) # <<>>
        THEN <<" ">> \o Deref(col.Codec) ELSE <<>>)
    \o (IF col.Comment # Nil /\ Deref(col.Comment) # <<>>
        THEN <<" ","C","O","M","M","E","N","T"," ","'">> \o Deref(col.Comment) \o <<"'">> ELSE <<>>)

\* GenerateCreateTable, the columns loop.
CreateTableColumns(table) ==
    Concat([i \in 1..Len(table.Columns) |->
        <<" "," ",BackQuote>> \o table.Columns[i].Name \o <<BackQuote," ">> \o table.Columns[i].Type
        \o ColumnModifiers(table.Columns[i])
        \o (IF i < Len(table.Columns) \/ Len(table.Indexes) > 0
            THEN <<",","\n">> ELSE <<>>)])

\* GenerateCreateTable, the indexes loop.
CreateTableIndexes(table) ==
    Concat([i \in 1..Len(table.Indexes) |->
        <<" "," ","I","N","D","E","X"," ",BackQuote>> \o table.Indexes[i].Name \o <<BackQuote," ">> \o table.Indexes[i].Expression
        \o <<" ","T","Y","P","E"," ">> \o table.Indexes[i].Type
        \o <<" ","G","R","A","N","U","L","A","R","I","T","Y"," ">> \o Itoa(table.Indexes[i].Granularity)
        \o (IF i < Len(table.Indexes) THEN <<",","\n">> ELSE <<>>)])

\* A faulty variant of CreateTableEngineClause: TTL comes before ORDER BY.
CreateTableEngineClauseTtlFirst(table) ==
    GenerateEngineString(table.Engine) \o <<"\n">>
    \o (IF table.PartitionBy # Nil /\ Deref(table.PartitionBy) # <<>>
        THEN <<" ","P","A","R","T","I","T","I","O","N"," ","B","Y"," ">> \o Deref(table.PartitionBy) \o <<"\n">> ELSE <<>>)
    \o (IF table.Ttl # Nil /\ Deref(table.Ttl) # <<>>
        THEN <<" ","T","T","L"," ">> \o Deref(table.Ttl) \o <<"\n">> ELSE <<>>)
    \o (IF Len(table.OrderBy) = 1
        THEN <<" ","O","R","D","E","R"," ","B","Y"," ">> \o table.OrderBy[1] \o <<"\n">>
        ELSE IF Len(table.OrderBy) > 1
        THEN <<" ","O","R","D","E","R"," ","B","Y"," ","(">> \o Join(table.OrderBy, <<","," ">>) \o <<")", "\n">>
        ELSE <<>>)
    \o (IF Len(table.Settings) > 0
        THEN LET keys == SortStrings([i \in 1..Len(table.Settings) |->
                                         table.Settings[i].key])
             IN  <<" ","S","E","T","T","I","N","G","S"," ">>
                 \o Join([i \in 1..Len(keys) |->
                            keys[i] \o <<" ","="," ">> \o MapGet(table.Settings, keys[i])], <<","," ">>)
        ELSE <<>>)

\* A faulty variant of CreateTableEngineClause: one ORDER BY key is
\* parenthesized like several.
CreateTableEngineClauseParenthesized(table) ==
    GenerateEngineString(table.Engine) \o <<"\n">>
    \o (IF table.PartitionBy # Nil /\ Deref(table.PartitionBy) # <<>>
        THEN <<" ","P","A","R","T","I","T","I","O","N"," ","B","Y"," ">> \o Deref(table.PartitionBy) \o <<"\n">> ELSE <<>>)
    \o (IF Len(table.OrderBy) > 0
        THEN <<" ","O","R","D","E","R"," ","B","Y"," ","(">> \o Join(table.OrderBy, <<","," ">>) \o <<")", "\n">> ELSE <<>>)
    \o (IF table.Ttl # Nil /\ Deref(table.Ttl) # <<>>
        THEN <<" ","T","T","L"," ">> \o Deref(table.Ttl) \o <<"\n">> ELSE <<>>)
    \o (IF Len(table.Settings) > 0
        THEN LET keys == SortStrings([i \in 1..Len(table.Settings) |->
                                         table.Settings[i].key])
             IN  <<" ","S","E","T","T","I","N","G","S"," ">>
                 \o Join([i \in 1..Len(keys) |->
                            keys[i] \o <<" ","="," ">> \o MapGet(table.Settings, keys[i])], <<","," ">>)
        ELSE <<>>)

\* GenerateCreateTable, from the engine to the end: what follows "ENGINE = ".
CreateTableEngineClause(table) ==
    GenerateEngineString(table.Engine) \o <<"\n">>
    \o (IF table.PartitionBy # Nil /\ Deref(table.PartitionBy) # <<>>
        THEN <<" ","P","A","R","T","I","T","I","O","N"," ","B","Y"," ">> \o Deref(table.PartitionBy) \o <<"\n">> ELSE <<>>)
    \o (IF Len(table.OrderBy) = 1
        THEN <<" ","O","R","D","E","R"," ","B","Y"," ">> \o table.OrderBy[1] \o <<"\n">>
        ELSE IF Len(table.OrderBy) > 1
        THEN <<" ","O","R","D","E","R"," ","B","Y"," ","(">> \o Join(table.OrderBy, <<","," ">>) \o <<")","\n">>
        ELSE <<>>)
    \o (IF table.Ttl # Nil /\ Deref(table.Ttl) # <<>>
        THEN <<" ","T","T","L"," ">> \o Deref(table.Ttl) \o <<"\n">> ELSE <<>>)
    \o (IF Len(table.Settings) > 0
        THEN LET keys == SortStrings([i \in 1..Len(table.Settings) |->
                                         table.Settings[i].key])
             IN  <<" ","S","E","T","T","I","N","G","S"," ">>
                 \o Join([i \in 1..Len(keys) |->
                            keys[i] \o <<" ","="," ">> \o MapGet(table.Settings, keys[i])], <<","," ">>)
        ELSE <<>>)

GenerateCreateTable(table) ==
    <<"C","R","E","A","T","E"," ","T","A","B","L","E"," ">>
    \o (IF table.Database # Nil THEN Deref(table.Database) ELSE <<"d","e","f","a","u","l","t">>)
    \o <<".">> \o table.Name \o <<" ","(","\n">>
    \o CreateTableColumns(table)
    \o CreateTableIndexes(table)
    \o <<"\n",")">>
    \o <<" ","E","N","G","I","N","E"," ","="," ">> \o CreateTableEngineClause(table)

GenerateDropTable(tableName) == <<"D","R","O","P"," ","T","A","B","L","E"," ">> \o tableName

GenerateAddColumn(tableName, column) ==
    <<"A","L","T","E","R"," ","T","A","B","L","E"," ">> \o tableName \o <<" ","A","D","D"," ","C","O","L","U","M","N"," ">> \o column.Name \o <<" ">> \o column.Type
    \o ColumnModifiers(column)

GenerateDropColumn(tableName, columnName) ==
    <<"A","L","T","E","R"," ","T","A","B","L","E"," ">> \o tableName \o <<" ","D","R","O","P"," ","C","O","L","U","M","N"," ">> \o columnName

\* payload[key].(type), the one-value form: it panics unless the map holds
\* under key a value of that dynamic type.
AssertsAs(payload, key, type) ==
    key \in DOMAIN payload.value /\ payload.value[key].type = type

GenerateActionSQL(action) ==
    IF action.Type = ActionCreateTable
    THEN IF action.Payload.type # TypeTable
         THEN Err(<<"i","n","v","a","l","i","d"," ","p","a","y","l","o","a","d"," ","f","o","r"," ","C","R","E","A","T","E","_","T","A","B","L","E">>)
         ELSE Ok(GenerateCreateTable(action.Payload.value))
    ELSE IF action.Type = ActionDropTable
    THEN IF action.Payload.type # TypeString
         THEN Err(<<"i","n","v","a","l","i","d"," ","p","a","y","l","o","a","d"," ","f","o","r"," ","D","R","O","P","_","T","A","B","L","E">>)
         ELSE Ok(GenerateDropTable(action.Payload.value))
    ELSE IF action.Type = ActionAddColumn
    THEN IF action.Payload.type # TypeMap
         THEN Err(<<"i","n","v","a","l","i","d"," ","p","a","y","l","o","a","d"," ","f","o","r"," ","A","D","D","_","C","O","L","U","M","N">>)
         ELSE IF ~ AssertsAs(action.Payload, "table", TypeString) THEN Panic
         ELSE IF ~ AssertsAs(action.Payload, "column", TypeColumn) THEN Panic
         ELSE Ok(GenerateAddColumn(action.Payload.value["table"].value,
                                   action.Payload.value["column"].value))
    ELSE IF action.Type = ActionDropColumn
    THEN IF action.Payload.type # TypeMap
         THEN Err(<<"i","n","v","a","l","i","d"," ","p","a","y","l","o","a","d"," ","f","o","r"," ","D","R","O","P","_","C","O","L","U","M","N">>)
         ELSE IF ~ AssertsAs(action.Payload, "table", TypeString) THEN Panic
         ELSE IF ~ AssertsAs(action.Payload, "column_name", TypeString) THEN Panic
         ELSE Ok(GenerateDropColumn(action.Payload.value["table"].value,
                                    action.Payload.value["column_name"].value))
    ELSE Err(<<"u","n","s","u","p","p","o","r","t","e","d"," ","a","c","t","i","o","n"," ","t","y","p","e",":"," ">> \o action.Type)

RECURSIVE GenerateSQL(_)
\* GenerateSQL: the statements of the actions, in order; the first failing
\* action ends it with that failure and no statements.
GenerateSQL(actions) ==
    IF actions = <<>> THEN Ok(<<>>)
    ELSE LET first == GenerateActionSQL(Head(actions))
             rest  == GenerateSQL(Tail(actions))
         IN  IF first.panic THEN Panic
             ELSE IF first.err # Nil
             THEN Err(<<"f","a","i","l","e","d"," ","t","o"," ","g","e","n","e","r","a","t","e"," ","S","Q","L"," ","f","o","r"," ","a","c","t","i","o","n"," ">> \o Head(actions).Type
                      \o <<":"," ">> \o Deref(first.err))
             ELSE IF rest.panic \/ rest.err # Nil THEN rest
             ELSE IF first.val # <<>> THEN Ok(<<first.val>> \o rest.val)
             ELSE rest

(***************************************************************************)
(* Engine parser (package introspection)                                   *)
(***************************************************************************)
\* A faulty variant of HasPrefix: the prefix is looked for anywhere in s.
HasPrefixAnywhere(s, prefix) ==
    \E i \in 0..(Len(s) - Len(prefix)) : SubSeq(s, i + 1, i + Len(prefix)) = prefix

\* strings.HasPrefix
HasPrefix(s, prefix) ==
    Len(s) >= Len(prefix) /\ SubSeq(s, 1, Len(prefix)) = prefix

\* s[i:j] of Go, with 0-based i (inclusive) and j (exclusive).
Slice(s, i, j) == SubSeq(s, i + 1, j)

\* The 0-based positions at which substr occurs in s.
Occurrences(s, substr) ==
    {i \in 0..(Len(s) - Len(substr)) : Slice(s, i, i + Len(substr)) = substr}

\* strings.Index: the first occurrence, -1 if there is none.
Index(s, substr) ==
    IF Occurrences(s, substr) = {} THEN -1
    ELSE CHOOSE i \in Occurrences(s, substr) :
            \A j \in Occurrences(s, substr) : i <= j

\* strings.LastIndex: the last occurrence, -1 if there is none.
LastIndex(s, substr) ==
    IF Occurrences(s, substr) = {} THEN -1
    ELSE CHOOSE i \in Occurrences(s, substr) :
            \A j \in Occurrences(s, substr) : i >= j

\* unicode.IsSpace on the characters of the model.
IsSpace(c) == c \in {" ", "\n", "\t", "\r"}

RECURSIVE TrimLeft(_, _)
\* strings.TrimLeft: s without its leading characters of cutset.
TrimLeft(s, cutset) ==
    IF s # <<>> /\ Head(s) \in cutset THEN TrimLeft(Tail(s), cutset) ELSE s

RECURSIVE TrimRight(_, _)
\* strings.TrimRight: s without its trailing characters of cutset.
TrimRight(s, cutset) ==
    IF s # <<>> /\ s[Len(s)] \in cutset
    THEN TrimRight(SubSeq(s, 1, Len(s) - 1), cutset) ELSE s

\* strings.Trim
Trim(s, cutset) == TrimRight(TrimLeft(s, cutset), cutset)

\* strings.TrimSpace
TrimSpace(s) == Trim(s, {" ", "\n", "\t", "\r"})

RECURSIVE Split(_, _)
\* strings.Split on a one-character separator.
Split(s, sep) ==
    IF Index(s, <<sep>>) = -1 THEN <<s>>
    ELSE <<Slice(s, 0, Index(s, <<sep>>))>>
         \o Split(Slice(s, Index(s, <<sep>>) + 1, Len(s)), sep)

\* The keywords that end an engine declaration inside engine_full.
keywords == <<<<" ","O","R","D","E","R"," ","B","Y">>, <<" ","P","A","R","T","I","T","I","O","N"," ","B","Y">>, <<" ","S","E","T","T","I","N","G","S">>>>

\* A faulty variant of minPos: the position of the last keyword found.
maxPos(engineFull) ==
    LET found == {Index(engineFull, keywords[k]) : k \in 1..Len(keywords)} \ {-1}
    IN  IF found = {} THEN Len(engineFull)
        ELSE CHOOSE p \in found : \A q \in found : p >= q

\* extractEngineDeclaration: minPos, the earliest position of a keyword.
minPos(engineFull) ==
    LET found == {Index(engineFull, keywords[k]) : k \in 1..Len(keywords)} \ {-1}
    IN  IF found = {} THEN Len(engineFull)
        ELSE CHOOSE p \in found : \A q \in found : p <= q

extractEngineDeclaration(engineFull) ==
    IF minPos(engineFull) < Len(engineFull)
    THEN TrimSpace(Slice(engineFull, 0, minPos(engineFull)))
    ELSE TrimSpace(engineFull)

\* The state of extractParameters' loop over content.
ScanStart == [params |-> <<>>, current |-> <<>>, inQuote |-> FALSE, quoteChar |-> Nil]

\* A faulty variant of ScanChar: every comma ends a parameter, in a quoted
\* section or not.
ScanCharEveryComma(st, ch) ==
    IF ch = ","
    THEN [st EXCEPT !.params = Append(st.params, TrimSpace(st.current)),
                    !.current = <<>>]
    ELSE [st EXCEPT !.current = Append(st.current, ch)]

\* One iteration of extractParameters' loop, on the character ch.
ScanChar(st, ch) ==
    IF ch \in {"'", "\""} /\ ~ st.inQuote
    THEN [st EXCEPT !.inQuote = TRUE, !.quoteChar = Ptr(ch),
                    !.current = Append(st.current, ch)]
    ELSE IF st.quoteChar = Ptr(ch) /\ st.inQuote
    THEN [st EXCEPT !.inQuote = FALSE, !.quoteChar = Nil,
                    !.current = Append(st.current, ch)]
    ELSE IF ch = "," /\ ~ st.inQuote
    THEN [st EXCEPT !.params = Append(st.params, TrimSpace(st.current)),
                    !.current = <<>>]
    ELSE [st EXCEPT !.current = Append(st.current, ch)]

RECURSIVE Scan(_, _, _, _)
\* extractParameters' loop over the characters content[lo..hi], in order, from
\* the state st.  The range is gone through by halves, and the state after the
\* first half is a value before the second half starts from it.
Scan(st, content, lo, hi) ==
    IF lo > hi THEN st
    ELSE IF lo = hi THEN ScanChar(st, content[lo])
    ELSE LET left == Scan(st, content, lo, (lo + hi) \div 2)
         IN  IF left.inQuote \in BOOLEAN
             THEN Scan(left, content, (lo + hi) \div 2 + 1, hi)
             ELSE left

\* extractParameters: the parameters between the first "(" and the last ")",
\* split on the commas outside quotes, trimmed of space and then of quotes.
extractParameters(engineDecl) ==
    LET start == Index(engineDecl, <<"(">>)
        end   == LastIndex(engineDecl, <<")">>)
    IN  IF start = -1 \/ end = -1 \/ start >= end THEN <<>>
        ELSE LET content == TrimSpace(Slice(engineDecl, start + 1, end))
                 st      == Scan(ScanStart, content, 1, Len(content))
                 params  == IF Len(st.current) > 0
                            THEN Append(st.params, TrimSpace(st.current))
                            ELSE st.params
             IN  IF content = <<>> THEN <<>>
                 ELSE [i \in 1..Len(params) |-> Trim(params[i], {"'", "\""})]

parseMergeTree(engineDecl) == Ok([EngineType |-> "MergeTree"])

\* A faulty variant of parseReplicatedMergeTree: a missing parameter is taken
\* to be the empty string.
parseReplicatedMergeTreeDefaulting(engineDecl) ==
    LET params == extractParameters(engineDecl)
    IN  Ok([EngineType |-> "ReplicatedMergeTree",
            ZooPath |-> IF Len(params) > 0 THEN params[1] ELSE <<>>,
            ReplicaName |-> IF Len(params) > 1 THEN params[2] ELSE <<>>])

parseReplicatedMergeTree(engineDecl) ==
    LET params == extractParameters(engineDecl)
    IN  IF Len(params) < 2
        THEN Err(<<"R","e","p","l","i","c","a","t","e","d","M","e","r","g","e","T","r","e","e"," ","r","e","q","u","i","r","e","s"," ","2"," ","p","a","r","a","m","e","t","e","r","s"," ","(","z","o","o","_","p","a","t","h",","," ","r","e","p","l","i","c","a","_","n","a","m","e",")",","," ","g","o","t"," ">>
                 \o Itoa(Len(params)))
        ELSE Ok([EngineType |-> "ReplicatedMergeTree",
                 ZooPath |-> params[1], ReplicaName |-> params[2]])

parseReplacingMergeTree(engineDecl) ==
    LET params == extractParameters(engineDecl)
    IN  Ok([EngineType |-> "ReplacingMergeTree",
            VersionColumn |-> IF Len(params) > 0 THEN Ptr(params[1]) ELSE Nil])

parseReplicatedReplacingMergeTree(engineDecl) ==
    LET params == extractParameters(engineDecl)
    IN  IF Len(params) < 2
        THEN Err(<<"R","e","p","l","i","c","a","t","e","d","R","e","p","l","a","c","i","n","g","M","e","r","g","e","T","r","e","e"," ","r","e","q","u","i","r","e","s"," ","a","t"," ","l","e","a","s","t"," ","2"," ","p","a","r","a","m","e","t","e","r","s",","," ","g","o","t"," ">>
                 \o Itoa(Len(params)))
        ELSE Ok([EngineType |-> "ReplicatedReplacingMergeTree",
                 ZooPath |-> params[1], ReplicaName |-> params[2],
                 VersionColumn |-> IF Len(params) > 2 THEN Ptr(params[3]) ELSE Nil])

\* The submatch of the regular expression SummingMergeTree\(\((.*?)\)\) in
\* engineDecl: Ptr(the text between the double parentheses) of the leftmost
\* match, the shortest from there; Nil if nothing matches ("." matches no
\* newline).
SummingSubmatch(engineDecl) ==
    LET open    == <<"S","u","m","m","i","n","g","M","e","r","g","e","T","r","e","e","(","(">>
        matches == {m \in Occurrences(engineDecl, open) \X (0..Len(engineDecl)) :
                       /\ m[2] >= m[1] + Len(open)
                       /\ m[2] \in Occurrences(engineDecl, <<")",")">>)
                       /\ \A k \in (m[1] + Len(open) + 1)..m[2] : engineDecl[k] # "\n"}
    IN  IF matches = {} THEN Nil
        ELSE LET m == CHOOSE m \in matches :
                         \A o \in matches :
                            m[1] < o[1] \/ (m[1] = o[1] /\ m[2] <= o[2])
             IN  Ptr(Slice(engineDecl, m[1] + Len(open), m[2]))

parseSummingMergeTree(engineDecl) ==
    LET sub        == SummingSubmatch(engineDecl)
        columnsStr == IF sub = Nil THEN <<>> ELSE TrimSpace(Deref(sub))
        columns    == Split(columnsStr, ",")
    IN  Ok([EngineType |-> "SummingMergeTree",
            SumColumns |-> IF columnsStr = <<>> THEN <<>>
                           ELSE [i \in 1..Len(columns) |-> TrimSpace(columns[i])]])

parseCollapsingMergeTree(engineDecl) ==
    LET params == extractParameters(engineDecl)
    IN  IF Len(params) # 1
        THEN Err(<<"C","o","l","l","a","p","s","i","n","g","M","e","r","g","e","T","r","e","e"," ","r","e","q","u","i","r","e","s"," ","1"," ","p","a","r","a","m","e","t","e","r"," ","(","s","i","g","n"," ","c","o","l","u","m","n",")",","," ","g","o","t"," ">>
                 \o Itoa(Len(params)))
        ELSE Ok([EngineType |-> "CollapsingMergeTree", SignColumn |-> params[1]])

parseReplicatedCollapsingMergeTree(engineDecl) ==
    LET params == extractParameters(engineDecl)
    IN  IF Len(params) # 3
        THEN Err(<<"R","e","p","l","i","c","a","t","e","d","C","o","l","l","a","p","s","i","n","g","M","e","r","g","e","T","r","e","e"," ","r","e","q","u","i","r","e","s"," ","3"," ","p","a","r","a","m","e","t","e","r","s",","," ","g","o","t"," ">>
                 \o Itoa(Len(params)))
        ELSE Ok([EngineType |-> "ReplicatedCollapsingMergeTree",
                 ZooPath |-> params[1], ReplicaName |-> params[2],
                 SignColumn |-> params[3]])

parseDistributed(engineDecl) ==
    LET params == extractParameters(engineDecl)
    IN  IF Len(params) < 3
        THEN Err(<<"D","i","s","t","r","i","b","u","t","e","d"," ","r","e","q","u","i","r","e","s"," ","a","t"," ","l","e","a","s","t"," ","3"," ","p","a","r","a","m","e","t","e","r","s",","," ","g","o","t"," ">> \o Itoa(Len(params)))
        ELSE Ok([EngineType |-> "Distributed",
                 ClusterName |-> params[1], RemoteDatabase |-> params[2],
                 RemoteTable |-> params[3],
                 ShardingKey |-> IF Len(params) > 3 THEN Ptr(params[4]) ELSE Nil])

\* A faulty variant of unsupportedEngineType: an engine no case matches is
\* taken to be a MergeTree.
fallbackEngineType(engineName) == Ok([EngineType |-> "MergeTree"])

\* The default case of ParseEngine's switch.
unsupportedEngineType(engineName) ==
    Err(<<"u","n","s","u","p","p","o","r","t","e","d"," ","e","n","g","i","n","e"," ","t","y","p","e",":"," ">> \o engineName)

\* ParseEngine: the switch over the prefixes of the cleaned declaration, in
\* the order of its cases.
ParseEngine(engineName, engineFull) ==
    LET decl       == extractEngineDeclaration(engineFull)
        engineDecl == IF decl = <<>> THEN engineName ELSE decl
    IN  IF HasPrefix(engineDecl, <<"M","e","r","g","e","T","r","e","e">>) THEN parseMergeTree(engineDecl)
        ELSE IF HasPrefix(engineDecl, <<"R","e","p","l","i","c","a","t","e","d","M","e","r","g","e","T","r","e","e">>)
        THEN parseReplicatedMergeTree(engineDecl)
        ELSE IF HasPrefix(engineDecl, <<"R","e","p","l","a","c","i","n","g","M","e","r","g","e","T","r","e","e">>)
        THEN parseReplacingMergeTree(engineDecl)
        ELSE IF HasPrefix(engineDecl, <<"R","e","p","l","i","c","a","t","e","d","R","e","p","l","a","c","i","n","g","M","e","r","g","e","T","r","e","e">>)
        THEN parseReplicatedReplacingMergeTree(engineDecl)
        ELSE IF HasPrefix(engineDecl, <<"S","u","m","m","i","n","g","M","e","r","g","e","T","r","e","e">>)
        THEN parseSummingMergeTree(engineDecl)
        ELSE IF HasPrefix(engineDecl, <<"R","e","p","l","i","c","a","t","e","d","C","o","l","l","a","p","s","i","n","g","M","e","r","g","e","T","r","e","e">>)
        THEN parseReplicatedCollapsingMergeTree(engineDecl)
        ELSE IF HasPrefix(engineDecl, <<"C","o","l","l","a","p","s","i","n","g","M","e","r","g","e","T","r","e","e">>)
        THEN parseCollapsingMergeTree(engineDecl)
        ELSE IF HasPrefix(engineDecl, <<"D","i","s","t","r","i","b","u","t","e","d">>) THEN parseDistributed(engineDecl)
        ELSE IF HasPrefix(engineDecl, <<"L","o","g">>) THEN Ok([EngineType |-> "Log"])
        ELSE unsupportedEngineType(engineName)

(***************************************************************************)
(* The schema states the model runs on                                     *)
(***************************************************************************)
users        == <<"u","s","e","r","s">>
products     == <<"p","r","o","d","u","c","t","s">>
legacy_table == <<"l","e","g","a","c","y","_","t","a","b","l","e">>
id           == <<"i","d">>
email        == <<"e","m","a","i","l">>
old_name     == <<"o","l","d","_","n","a","m","e">>
name         == <<"n","a","m","e">>

Column(n, type) ==
    [Name |-> n, Type |-> type, DefaultExpression |-> Nil, Codec |-> Nil, Comment |-> Nil]

Table(n, columns, engine, orderBy) ==
    [Name |-> n, Database |-> Ptr(<<"m","y","a","p","p">>), Columns |-> columns, OrderBy |-> orderBy,
     PartitionBy |-> Nil, Ttl |-> Nil, Settings |-> <<>>, Indexes |-> <<>>,
     Engine |-> engine]

colId      == Column(id, <<"U","I","n","t","6","4">>)
colEmail   == Column(email, <<"S","t","r","i","n","g">>)
colOldName == Column(old_name, <<"S","t","r","i","n","g">>)
colName    == Column(name, <<"S","t","r","i","n","g">>)
\* The columns id and email with other attributes than colId and colEmail.
colIdAltered    == [colId EXCEPT !.Type = <<"U","I","n","t","3","2">>, !.Codec = Ptr(<<"C","O","D","E","C","(","Z","S","T","D",")">>)]
colEmailAltered == [colEmail EXCEPT !.DefaultExpression = Ptr(<<"'","'">>),
                                    !.Comment = Ptr(<<"c","o","n","t","a","c","t">>)]

UsersColumns ==
    { <<colId>>, <<colId, colEmail>>, <<colEmail, colId>>, <<colId, colOldName>>,
      <<colId, colOldName, colEmail>>, <<colIdAltered, colEmailAltered>> }

\* The tables a schema state is made of.
Tables ==
    {Table(users, cols, [EngineType |-> "MergeTree"], <<id>>) : cols \in UsersColumns}
    \cup {Table(products, cols,
                [EngineType |-> "ReplicatedMergeTree",
                 ZooPath |-> <<"/","c","h","/","{","s","h","a","r","d","}","/","p","r","o","d","u","c","t","s">>, ReplicaName |-> <<"{","r","e","p","l","i","c","a","}">>],
                <<id, name>>) : cols \in {<<colId, colName>>, <<colId>>}}
    \cup {Table(legacy_table, <<colId>>, [EngineType |-> "Log"], <<>>)}

TableNames(state) == {state.Tables[i].Name : i \in 1..Len(state.Tables)}
ColumnNames(table) == {table.Columns[i].Name : i \in 1..Len(table.Columns)}

\* A schema state (NodeSchemaState) in which no two tables have the same name
\* and no table two columns of the same name.
Valid(state) ==
    /\ \A i, j \in 1..Len(state.Tables) :
          state.Tables[i].Name = state.Tables[j].Name => i = j
    /\ \A i \in 1..Len(state.Tables) :
          \A j, k \in 1..Len(state.Tables[i].Columns) :
             state.Tables[i].Columns[j].Name = state.Tables[i].Columns[k].Name => j = k

\* The order in which the run first inserts the tables into a state; Rerun
\* inserts them in every other order.
InsertionOrder == <<users, products, legacy_table>>
Position(n) == CHOOSE k \in 1..Len(InsertionOrder) : InsertionOrder[k] = n

\* The valid schema states of at most MaxTables tables.
States ==
    {state \in [Tables : UNION {[1..n -> Tables] : n \in 0..MaxTables}] :
        /\ Valid(state)
        /\ \A i, j \in 1..Len(state.Tables) :
              i < j => Position(state.Tables[i].Name) < Position(state.Tables[j].Name)}

\* The schema states that hold the tables of state, in every insertion order.
Reorderings(state) ==
    {[Tables |-> [i \in 1..Len(state.Tables) |-> state.Tables[order[i]]]] :
        order \in Orders(1..Len(state.Tables))}

\* conn.Exec of the DDL of an action on a database db (table name -> columns):
\* CREATE TABLE adds the table with its columns, DROP TABLE removes it, ADD
\* COLUMN appends the column and DROP COLUMN removes it.
Exec(db, action) ==
    IF action.Type = ActionCreateTable
    THEN [n \in DOMAIN db \cup {action.Payload.value.Name} |->
            IF n = action.Payload.value.Name THEN action.Payload.value.Columns ELSE db[n]]
    ELSE IF action.Type = ActionDropTable
    THEN [n \in DOMAIN db \ {action.Payload.value} |-> db[n]]
    ELSE IF action.Type = ActionAddColumn
    THEN [db EXCEPT ![action.Payload.value["table"].value] =
                        Append(@, action.Payload.value["column"].value)]
    ELSE [db EXCEPT ![action.Payload.value["table"].value] =
                        SelectSeq(@, LAMBDA c :
                                     c.Name # action.Payload.value["column_name"].value)]

\* The database that holds the tables of a schema state.
Database(state) == [n \in TableNames(state) |-> tablesToMap(state.Tables)[n].Columns]

(***************************************************************************)
(* The migration run: load, plan, render, execute (cmd/chschema migrate)   *)
(***************************************************************************)
VARIABLES
    pc,          \* the step of the run
    desired,     \* the desired state (Loader)
    current,     \* the current state (Introspector)
    plan,        \* the Actions of the plan
    planErr,     \* the error Plan returned
    statements,  \* what GenerateSQL returned for the plan
    rerun,       \* a second run on reordered states: [reordered, plan, statements]
    db,          \* the database the plan is executed on
    executed,    \* the number of actions of the plan gone through
    omitted,     \* the action left out of the execution (0: none)
    engineTable, \* the table of the engine round trip
    ddl,         \* GenerateCreateTable(table)
    parsed,      \* what ParseEngine returned for the engine clause of ddl
    ddl2,        \* GenerateCreateTable of the table with the parsed engine
    engineName,  \* the engine column of system.tables
    engineFull,  \* the engine_full column of system.tables
    engineDecl,  \* what extractEngineDeclaration returned for engineFull
    params,      \* what extractParameters returned for engineFull
    issued,      \* the statements conn.Exec was called with, in order
    result,      \* what Execute returned
    catalog,     \* the rows of system.tables, ordered by name
    DumpedEngines,   \* Introspector.DumpedEngines
    SkippedEngines,  \* Introspector.SkippedEngines
    snapshot,    \* the tables, materialized views and views of the state being built
    cursor,      \* the row of its query introspectTables is at
    passes,      \* the number of GetCurrentState calls begun on the Introspector
    introErr,    \* the error GetCurrentState returned
    sqlInput,    \* the action handed to GenerateActionSQL
    sqlOutput,   \* what GenerateActionSQL returned for it
    sqlAgain,    \* a second rendering: [input, output]
    files,       \* the tables of the files of the schema directory, in ReadDir order
    loadErr      \* the error Load returned

migrationVars == <<desired, current, plan, planErr, statements, rerun, db, executed, omitted>>
roundTripVars == <<engineTable, ddl, parsed, ddl2>>
parseVars == <<engineName, engineFull, engineDecl, params>>
executeVars == <<issued, result>>
introspectVars == <<catalog, DumpedEngines, SkippedEngines, snapshot, cursor, passes, introErr>>
renderVars == <<sqlInput, sqlOutput, sqlAgain>>
loadVars == <<files, loadErr>>
vars == <<pc, migrationVars, roundTripVars, parseVars, executeVars, introspectVars,
          renderVars, loadVars>>

NoTable == Table(<<>>, <<>>, NoEngine, <<>>)

\* No engine declaration is being parsed.
NoParse == engineName = <<>> /\ engineFull = <<>> /\ engineDecl = <<>> /\ params = <<>>

\* Execute is not running.
NoExecute == issued = <<>> /\ result = Ok(<<>>)

\* No Introspector is at work.
NoIntrospect ==
    /\ catalog = <<>> /\ DumpedEngines = <<>> /\ SkippedEngines = <<>>
    /\ snapshot = <<>> /\ cursor = 0 /\ passes = 0 /\ introErr = Nil

\* Nothing is being rendered.
NoRender == sqlInput = <<>> /\ sqlOutput = Ok(<<>>) /\ sqlAgain = <<>>

\* No schema directory is being loaded.
NoLoad == files = <<>> /\ loadErr = Nil

NoRerun == [reordered |-> FALSE, plan |-> <<>>, statements |-> Ok(<<>>)]

Init ==
    /\ pc = "loaded"
    /\ desired \in States
    /\ current \in States
    /\ plan = <<>>
    /\ planErr = Nil
    /\ statements = Ok(<<>>)
    /\ rerun = NoRerun
    /\ db = Database(current)
    /\ executed = 0
    /\ omitted = 0
    /\ engineTable = NoTable /\ ddl = <<>> /\ parsed = Ok(NoEngine) /\ ddl2 = <<>>
    /\ NoParse
    /\ NoExecute
    /\ NoIntrospect /\ NoRender /\ NoLoad

\* differ.Plan(desired, current)
DoPlan ==
    /\ pc = "loaded"
    /\ \E iter \in IterationOrders(desired, current) :
          LET r == Plan(desired, current, iter)
          IN  plan' = r.val.Actions /\ planErr' = r.err
    /\ pc' = "planned"
    /\ UNCHANGED <<desired, current, statements, rerun, db, executed, omitted, roundTripVars, parseVars, executeVars, introspectVars, renderVars, loadVars>>

\* sqlGen.GenerateSQL(plan.Actions)
DoGenerateSQL ==
    /\ pc = "planned"
    /\ statements' = GenerateSQL(plan)
    /\ pc' = "generated"
    /\ UNCHANGED <<desired, current, plan, planErr, rerun, db, executed, omitted, roundTripVars, parseVars, executeVars, introspectVars, renderVars, loadVars>>

\* Plan and GenerateSQL once more, on the same tables inserted in any order.
Rerun ==
    /\ pc = "generated"
    /\ \E d \in Reorderings(desired), c \in Reorderings(current) :
          \E iter \in IterationOrders(d, c) :
             LET r == Plan(d, c, iter)
             IN  rerun' = [reordered  |-> (d # desired \/ c # current),
                           plan       |-> r.val.Actions,
                           statements |-> GenerateSQL(r.val.Actions)]
    /\ pc' = "rerun"
    /\ UNCHANGED <<desired, current, plan, planErr, statements, db, executed, omitted, roundTripVars, parseVars, executeVars, introspectVars, renderVars, loadVars>>

\* Executor.Execute begins; the run may leave out one action of the plan.
BeginExecute ==
    /\ pc = "generated"
    /\ omitted' \in 0..Len(plan)
    /\ pc' = "executing"
    /\ UNCHANGED <<desired, current, plan, planErr, statements, rerun, db, executed, roundTripVars, parseVars, executeVars, introspectVars, renderVars, loadVars>>

\* Executor.Execute, one iteration of its loop over plan.Actions.
ExecuteAction ==
    /\ pc = "executing"
    /\ executed < Len(plan)
    /\ executed' = executed + 1
    /\ db' = IF executed + 1 = omitted THEN db ELSE Exec(db, plan[executed + 1])
    /\ UNCHANGED <<pc, desired, current, plan, planErr, statements, rerun, omitted, roundTripVars, parseVars, executeVars, introspectVars, renderVars, loadVars>>

\* Executor.Execute returns.
FinishExecute ==
    /\ pc = "executing"
    /\ executed = Len(plan)
    /\ pc' = "executed"
    /\ UNCHANGED <<desired, current, plan, planErr, statements, rerun, db, executed, omitted, roundTripVars, parseVars, executeVars, introspectVars, renderVars, loadVars>>

Next ==
    \/ DoPlan
    \/ DoGenerateSQL
    \/ Rerun
    \/ BeginExecute
    \/ ExecuteAction
    \/ FinishExecute

Spec == Init /\ [][Next]_vars

(***************************************************************************)
(* Properties of the Differ                                                *)
(***************************************************************************)
Planned == pc # "loaded"

IsColumnAction(a) == a.Type \in {ActionAddColumn, ActionDropColumn}

\* The table an action is about, and the column a column action is about.
ActionTable(a) ==
    IF a.Type = ActionCreateTable THEN a.Payload.value.Name
    ELSE IF a.Type = ActionDropTable THEN a.Payload.value
    ELSE a.Payload.value["table"].value
ActionColumn(a) ==
    IF a.Type = ActionAddColumn THEN a.Payload.value["column"].value.Name
    ELSE a.Payload.value["column_name"].value

\* The table named n of a valid state, and the position of the column named c
\* in a table.
TableNamed(state, n) ==
    state.Tables[CHOOSE i \in 1..Len(state.Tables) : state.Tables[i].Name = n]
ColumnPosition(table, c) ==
    CHOOSE k \in 1..Len(table.Columns) : table.Columns[k].Name = c

\* The positions of the plan's actions of a type about the table n.
ActionsOn(type, n) ==
    {i \in 1..Len(plan) : plan[i].Type = type /\ ActionTable(plan[i]) = n}

InBoth == TableNames(desired) \cap TableNames(current)

\* C1 (diff idempotence): the plan of a valid state against itself has no
\* action, and Plan returns no error.
C1_PlanOfSameStateIsEmpty ==
    (Planned /\ desired = current) => (plan = <<>> /\ planErr = Nil)

C1_Witness ==
    /\ Planned
    /\ desired = current
    /\ Len(desired.Tables) = 2
    /\ \A i \in 1..2 : Len(desired.Tables[i].Columns) >= 2

\* C2 (table presence diff): the plan holds exactly one CreateTable action,
\* carrying the full desired table, for each table name in desired and not in
\* current, exactly one DropTable action, carrying the name only, for each
\* table name in current and not in desired, and no other CreateTable or
\* DropTable action; for desired = {users} and current = {} it is the one
\* action CreateTable(users), and for the converse the one action
\* DropTable("users").
C2_TablePresence ==
    Planned =>
        /\ \A n \in TableNames(desired) \ TableNames(current) :
              /\ Cardinality(ActionsOn(ActionCreateTable, n)) = 1
              /\ \A i \in ActionsOn(ActionCreateTable, n) :
                    plan[i].Payload = Iface(TypeTable, TableNamed(desired, n))
        /\ \A n \in TableNames(current) \ TableNames(desired) :
              /\ Cardinality(ActionsOn(ActionDropTable, n)) = 1
              /\ \A i \in ActionsOn(ActionDropTable, n) :
                    plan[i].Payload = Iface(TypeString, n)
        /\ \A i \in 1..Len(plan) :
              /\ plan[i].Type = ActionCreateTable =>
                    ActionTable(plan[i]) \in TableNames(desired) \ TableNames(current)
              /\ plan[i].Type = ActionDropTable =>
                    ActionTable(plan[i]) \in TableNames(current) \ TableNames(desired)
        /\ (TableNames(desired) = {users} /\ current.Tables = <<>>) =>
              (Len(plan) = 1 /\ plan[1].Type = ActionCreateTable
                             /\ plan[1].Payload.value = desired.Tables[1])
        /\ (TableNames(current) = {users} /\ desired.Tables = <<>>) =>
              (Len(plan) = 1 /\ plan[1].Type = ActionDropTable
                             /\ plan[1].Payload.value = users)

C2_Witness ==
    /\ Planned
    /\ ActionsOn(ActionCreateTable, products) # {}
    /\ ActionsOn(ActionDropTable, legacy_table) # {}

\* C3 (column diff by name): for every table in both states the plan holds
\* exactly one AddColumn action (table name and desired column) for each
\* desired column whose name the current table lacks, exactly one DropColumn
\* action (table name and column name) for each current column whose name the
\* desired table lacks, and no other column action; the positions of the
\* columns play no part.
C3_ColumnDiffByName ==
    Planned =>
        /\ \A n \in InBoth :
              LET d == TableNamed(desired, n)
                  c == TableNamed(current, n)
              IN  /\ \A k \in 1..Len(d.Columns) :
                        Cardinality({i \in ActionsOn(ActionAddColumn, n) :
                                        plan[i].Payload.value["column"]
                                           = Iface(TypeColumn, d.Columns[k])})
                        = (IF d.Columns[k].Name \in ColumnNames(c) THEN 0 ELSE 1)
                  /\ \A k \in 1..Len(c.Columns) :
                        Cardinality({i \in ActionsOn(ActionDropColumn, n) :
                                        plan[i].Payload.value["column_name"]
                                           = Iface(TypeString, c.Columns[k].Name)})
                        = (IF c.Columns[k].Name \in ColumnNames(d) THEN 0 ELSE 1)
                  /\ Cardinality(ActionsOn(ActionAddColumn, n))
                        = Cardinality(ColumnNames(d) \ ColumnNames(c))
                  /\ Cardinality(ActionsOn(ActionDropColumn, n))
                        = Cardinality(ColumnNames(c) \ ColumnNames(d))
        /\ \A i \in 1..Len(plan) :
              IsColumnAction(plan[i]) => ActionTable(plan[i]) \in InBoth

\* The same column names at other positions, and no column action for it.
C3_Witness ==
    /\ Planned
    /\ \E n \in InBoth :
          /\ ColumnNames(TableNamed(desired, n)) = ColumnNames(TableNamed(current, n))
          /\ \E k \in 1..Len(TableNamed(desired, n).Columns) :
                TableNamed(desired, n).Columns[k].Name
                   # TableNamed(current, n).Columns[k].Name
    /\ \E i \in 1..Len(plan) : IsColumnAction(plan[i])

\* The database holds the tables of the desired state, each with the columns
\* of the desired table.
Converged ==
    /\ DOMAIN db = TableNames(desired)
    /\ \A n \in DOMAIN db :
          {db[n][k].Name : k \in 1..Len(db[n])} = ColumnNames(TableNamed(desired, n))

\* C4 (convergence): executing all the actions of the plan in order on the
\* current database yields the table names and, per table, the column names
\* of the desired state; executing them with any one action left out does not.
C4_PlanSufficientAndNecessary ==
    pc = "executed" => (Converged <=> omitted = 0)

C4_Witness ==
    /\ pc = "executed"
    /\ omitted # 0
    /\ \E i, j, k \in 1..Len(plan) :
          /\ plan[i].Type = ActionCreateTable
          /\ plan[j].Type = ActionDropTable
          /\ IsColumnAction(plan[k])

\* The phase of an action: creates, then drops, then column actions.
Phase(a) == IF a.Type = ActionCreateTable THEN 1
            ELSE IF a.Type = ActionDropTable THEN 2 ELSE 3

\* C5 (plan ordering by phase): the CreateTable actions come first, in
\* ascending order of table name, then the DropTable actions, in ascending
\* order of table name, then the column actions, grouped per table, the tables
\* in ascending order of name.
C5_PhaseOrder ==
    Planned =>
        \A i, j \in 1..Len(plan) :
            i < j =>
                /\ Phase(plan[i]) <= Phase(plan[j])
                /\ (Phase(plan[i]) = Phase(plan[j]) /\ Phase(plan[i]) < 3) =>
                      StringLess(ActionTable(plan[i]), ActionTable(plan[j]))
                /\ (Phase(plan[i]) = 3 /\ Phase(plan[j]) = 3) =>
                      ~ StringLess(ActionTable(plan[j]), ActionTable(plan[i]))

\* Two tables inserted in descending order of name, both with column actions.
C5_Witness ==
    /\ Planned
    /\ \E i, j \in 1..Len(plan) :
          /\ i < j
          /\ IsColumnAction(plan[i]) /\ ActionTable(plan[i]) = products
          /\ IsColumnAction(plan[j]) /\ ActionTable(plan[j]) = users
    /\ Position(users) < Position(products)

\* C6 as stated (column actions sorted by name): the AddColumn actions of a
\* table are in ascending order of column name, and so are its DropColumn
\* actions, however the columns are listed in the tables.
C6_ColumnActionsSortedByName ==
    Planned =>
        \A i, j \in 1..Len(plan) :
            (/\ i < j
             /\ IsColumnAction(plan[i])
             /\ plan[i].Type = plan[j].Type
             /\ ActionTable(plan[i]) = ActionTable(plan[j]))
            => StringLess(ActionColumn(plan[i]), ActionColumn(plan[j]))

\* C6 as amended (column actions in declared order): the AddColumn actions of
\* a table are in the order in which the desired table lists the columns,
\* followed by its DropColumn actions in the order in which the current table
\* lists them.
C6_ColumnActionsInDeclaredOrder ==
    Planned =>
        \A i, j \in 1..Len(plan) :
            (/\ i < j
             /\ IsColumnAction(plan[i]) /\ IsColumnAction(plan[j])
             /\ ActionTable(plan[i]) = ActionTable(plan[j]))
            =>
            LET n == ActionTable(plan[i])
            IN  /\ plan[i].Type = ActionAddColumn \/ plan[j].Type = ActionDropColumn
                /\ (plan[i].Type = ActionAddColumn /\ plan[j].Type = ActionAddColumn) =>
                      ColumnPosition(TableNamed(desired, n), ActionColumn(plan[i]))
                         < ColumnPosition(TableNamed(desired, n), ActionColumn(plan[j]))
                /\ (plan[i].Type = ActionDropColumn /\ plan[j].Type = ActionDropColumn) =>
                      ColumnPosition(TableNamed(current, n), ActionColumn(plan[i]))
                         < ColumnPosition(TableNamed(current, n), ActionColumn(plan[j]))

\* Two columns added to a table, the later of them first by name.
C6_Witness ==
    /\ Planned
    /\ \E i, j \in 1..Len(plan) :
          /\ i < j
          /\ plan[i].Type = ActionAddColumn /\ plan[j].Type = ActionAddColumn
          /\ ActionTable(plan[i]) = ActionTable(plan[j])
          /\ StringLess(ActionColumn(plan[j]), ActionColumn(plan[i]))

\* The names of the columns of the table named n, in the order of the table.
ColumnNameList(state, n) ==
    [k \in 1..Len(TableNamed(state, n).Columns) |-> TableNamed(state, n).Columns[k].Name]

\* The example of the end-to-end scenario.
C7_Example ==
    /\ TableNames(desired) = {users} /\ ColumnNameList(desired, users) = <<id, email>>
    /\ TableNames(current) = {users} /\ ColumnNameList(current, users) = <<id, old_name>>

\* C7 (add before drop): no DropColumn action of a table precedes an AddColumn
\* action of that table; for desired {users: [id, email]} and current
\* {users: [id, old_name]} the plan is AddColumn(users, email) and then
\* DropColumn(users, old_name), and nothing else.
C7_AddBeforeDrop ==
    Planned =>
        /\ \A i, j \in 1..Len(plan) :
              (/\ plan[i].Type = ActionDropColumn
               /\ plan[j].Type = ActionAddColumn
               /\ ActionTable(plan[i]) = ActionTable(plan[j]))
              => j < i
        /\ C7_Example =>
              /\ Len(plan) = 2
              /\ plan[1].Type = ActionAddColumn
              /\ ActionTable(plan[1]) = users /\ ActionColumn(plan[1]) = email
              /\ plan[2].Type = ActionDropColumn
              /\ ActionTable(plan[2]) = users /\ ActionColumn(plan[2]) = old_name

C7_Witness == Planned /\ C7_Example /\ Len(plan) = 2

\* C8 (determinism): whatever the order in which the tables were inserted into
\* the two states, and whatever the order in which the maps are iterated, a
\* second run yields the actions of the first and GenerateSQL the statements
\* of the first.
C8_Deterministic ==
    pc = "rerun" => (rerun.plan = plan /\ rerun.statements = statements)

C8_Witness ==
    /\ pc = "rerun"
    /\ rerun.reordered
    /\ Len(plan) >= 3
    /\ statements.err = Nil /\ Len(statements.val) = Len(plan)

\* The column named c has other attributes in the current table named n than
\* in the desired one.
Altered(n, c) ==
    /\ c \in ColumnNames(TableNamed(desired, n)) \cap ColumnNames(TableNamed(current, n))
    /\ TableNamed(desired, n).Columns[ColumnPosition(TableNamed(desired, n), c)]
          # TableNamed(current, n).Columns[ColumnPosition(TableNamed(current, n), c)]

\* C9 (no alter-column detection): a column that has the same name in the
\* desired and the current table gets no action, whatever its type, default,
\* codec and comment are in the two; two states with the same tables and the
\* same column names have the empty plan.
C9_NoAlterColumn ==
    Planned =>
        /\ \A n \in InBoth :
              \A c \in ColumnNames(TableNamed(desired, n))
                          \cap ColumnNames(TableNamed(current, n)) :
                 \A i \in 1..Len(plan) :
                    ~ (IsColumnAction(plan[i]) /\ ActionTable(plan[i]) = n
                                               /\ ActionColumn(plan[i]) = c)
        /\ (/\ TableNames(desired) = TableNames(current)
            /\ \A n \in InBoth : ColumnNames(TableNamed(desired, n))
                                    = ColumnNames(TableNamed(current, n)))
           => plan = <<>>

C9_Witness ==
    /\ Planned
    /\ TableNames(desired) = TableNames(current)
    /\ \A n \in InBoth : ColumnNames(TableNamed(desired, n))
                            = ColumnNames(TableNamed(current, n))
    /\ \E n \in InBoth : Altered(n, id) /\ Altered(n, email)

(***************************************************************************)
(* The engine round trip: render a table, parse the engine clause of the   *)
(* DDL as the Introspector does, render the table with the parsed engine   *)
(***************************************************************************)
ZooPaths == {<<"/","c","l","i","c","k","h","o","u","s","e","/","t","a","b","l","e","s","/","{","s","h","a","r","d","}","/","t">>, <<"/","c","h","/","t">>}

\* The engines of the round trip: every variant of the oneof.
Engines ==
    {[EngineType |-> "MergeTree"], [EngineType |-> "AggregatingMergeTree"],
     [EngineType |-> "Log"]}
    \cup {[EngineType |-> "ReplicatedMergeTree", ZooPath |-> p, ReplicaName |-> <<"{","r","e","p","l","i","c","a","}">>] :
             p \in ZooPaths}
    \cup {[EngineType |-> "ReplacingMergeTree", VersionColumn |-> v] :
             v \in {Nil, Ptr(<<"v","e","r","s","i","o","n">>)}}
    \cup {[EngineType |-> "ReplicatedReplacingMergeTree", ZooPath |-> p,
           ReplicaName |-> <<"{","r","e","p","l","i","c","a","}">>, VersionColumn |-> v] :
             p \in ZooPaths, v \in {Nil, Ptr(<<"v","e","r","s","i","o","n">>)}}
    \cup {[EngineType |-> "SummingMergeTree", SumColumns |-> c] :
             c \in {<<>>, <<<<"v","a","l","u","e">>>>, <<<<"v","a","l","1">>, <<"v","a","l","2">>>>}}
    \cup {[EngineType |-> "CollapsingMergeTree", SignColumn |-> <<"s","i","g","n">>]}
    \cup {[EngineType |-> "ReplicatedCollapsingMergeTree", ZooPath |-> p,
           ReplicaName |-> <<"{","r","e","p","l","i","c","a","}">>, SignColumn |-> <<"s","i","g","n">>] : p \in ZooPaths}
    \cup {[EngineType |-> "ReplicatedAggregatingMergeTree", ZooPath |-> p,
           ReplicaName |-> <<"{","r","e","p","l","i","c","a","}">>] : p \in ZooPaths}
    \cup {[EngineType |-> "Distributed", ClusterName |-> <<"c","l","u","s","t","e","r","1">>,
           RemoteDatabase |-> <<"m","y","d","b">>, RemoteTable |-> <<"m","y","t","a","b","l","e">>, ShardingKey |-> k] :
             k \in {Nil, Ptr(<<"r","a","n","d","(",")">>), Ptr(<<"c","i","t","y","H","a","s","h","6","4","(","i","d",")">>)}}
    \cup {[EngineType |-> "Kafka", BrokerList |-> <<<<"k","a","f","k","a","1",":","9","0","9","2">>, <<"k","a","f","k","a","2",":","9","0","9","2">>>>,
           Topic |-> <<"e","v","e","n","t","s">>, ConsumerGroup |-> <<"g","r","o","u","p","1">>, Format |-> <<"J","S","O","N","E","a","c","h","R","o","w">>]}

\* The tables of the round trip: each engine, the nil Engine and the Engine
\* with no variant set, under each set of trailing clauses.
EngineTables ==
    {[Table(<<"t">>, <<colId, Column(<<"t","s">>, <<"D","a","t","e","T","i","m","e">>)>>, engine, orderBy)
         EXCEPT !.PartitionBy = partitionBy, !.Settings = settings] :
        engine \in Engines \cup {NoEngine, UnsetEngine},
        orderBy \in {<<>>, <<id>>, <<id, <<"t","s">>>>},
        partitionBy \in {Nil, Ptr(<<"t","o","Y","Y","Y","Y","M","M","(","t","s",")">>)},
        settings \in {<<>>, <<[key |-> <<"i","n","d","e","x","_","g","r","a","n","u","l","a","r","i","t","y">>, value |-> <<"8","1","9","2">>]>>}}

\* The engine clause of a CREATE TABLE statement: what follows " ENGINE = ".
EngineClause(sql) == Slice(sql, Index(sql, <<" ","E","N","G","I","N","E"," ","="," ">>) + Len(<<" ","E","N","G","I","N","E"," ","="," ">>), Len(sql))

\* The engine name of an engine clause: what precedes its parenthesis.
EngineName(clause) == Slice(clause, 0, Index(clause, <<"(">>))

RoundTripInit ==
    /\ pc = "built"
    /\ engineTable \in EngineTables
    /\ ddl = <<>> /\ parsed = Ok(NoEngine) /\ ddl2 = <<>>
    /\ desired = [Tables |-> <<>>] /\ current = [Tables |-> <<>>]
    /\ plan = <<>> /\ planErr = Nil /\ statements = Ok(<<>>) /\ rerun = NoRerun
    /\ db = <<>> /\ executed = 0 /\ omitted = 0
    /\ NoParse
    /\ NoExecute
    /\ NoIntrospect /\ NoRender /\ NoLoad

\* GenerateCreateTable(table)
Render ==
    /\ pc = "built"
    /\ ddl' = GenerateCreateTable(engineTable)
    /\ pc' = "rendered"
    /\ UNCHANGED <<migrationVars, parseVars, executeVars, engineTable, parsed, ddl2, introspectVars, renderVars, loadVars>>

\* ParseEngine(engine, engine_full) on the engine clause of the DDL.
Parse ==
    /\ pc = "rendered"
    /\ parsed' = ParseEngine(EngineName(EngineClause(ddl)), EngineClause(ddl))
    /\ pc' = "parsed"
    /\ UNCHANGED <<migrationVars, parseVars, executeVars, engineTable, ddl, ddl2, introspectVars, renderVars, loadVars>>

\* GenerateCreateTable of the table with the engine ParseEngine returned.
Rerender ==
    /\ pc = "parsed"
    /\ parsed.err = Nil
    /\ ddl2' = GenerateCreateTable([engineTable EXCEPT !.Engine = parsed.val])
    /\ pc' = "rerendered"
    /\ UNCHANGED <<migrationVars, parseVars, executeVars, engineTable, ddl, parsed, introspectVars, renderVars, loadVars>>

RoundTripNext == Render \/ Parse \/ Rerender

RoundTrip == RoundTripInit /\ [][RoundTripNext]_vars

\* C10 (engine round trip): for a table of any engine variant, ParseEngine
\* succeeds on the engine clause GenerateCreateTable renders, and the table
\* with the parsed engine renders to the same DDL.
C10_EngineRoundTrip ==
    /\ pc \in {"parsed", "rerendered"} => parsed.err = Nil
    /\ pc = "rerendered" => ddl2 = ddl

\* C19 (no fallback engine): the engine clause GenerateCreateTable renders
\* names an engine only if that variant is populated in the table; for a table
\* whose Engine is nil or has no variant set it is not MergeTree().
C19_NoFallbackEngine ==
    pc \in {"rendered", "parsed", "rerendered"} =>
        /\ engineTable.Engine \in {NoEngine, UnsetEngine}
              => EngineName(EngineClause(ddl)) # <<"M","e","r","g","e","T","r","e","e">>
        /\ EngineName(EngineClause(ddl)) = <<"M","e","r","g","e","T","r","e","e">>
              => engineTable.Engine.EngineType = "MergeTree"

(***************************************************************************)
(* Engine parsing: the Introspector hands the engine and engine_full       *)
(* columns of system.tables to ParseEngine                                 *)
(***************************************************************************)
\* The cases of ParseEngine's switch, in the order of the source: the prefix
\* looked for and the variant of the Engine the case returns.
EnginePrefixes ==
    << [prefix |-> <<"M","e","r","g","e","T","r","e","e">>, variant |-> "MergeTree"],
       [prefix |-> <<"R","e","p","l","i","c","a","t","e","d","M","e","r","g","e","T","r","e","e">>, variant |-> "ReplicatedMergeTree"],
       [prefix |-> <<"R","e","p","l","a","c","i","n","g","M","e","r","g","e","T","r","e","e">>, variant |-> "ReplacingMergeTree"],
       [prefix |-> <<"R","e","p","l","i","c","a","t","e","d","R","e","p","l","a","c","i","n","g","M","e","r","g","e","T","r","e","e">>, variant |-> "ReplicatedReplacingMergeTree"],
       [prefix |-> <<"S","u","m","m","i","n","g","M","e","r","g","e","T","r","e","e">>, variant |-> "SummingMergeTree"],
       [prefix |-> <<"R","e","p","l","i","c","a","t","e","d","C","o","l","l","a","p","s","i","n","g","M","e","r","g","e","T","r","e","e">>, variant |-> "ReplicatedCollapsingMergeTree"],
       [prefix |-> <<"C","o","l","l","a","p","s","i","n","g","M","e","r","g","e","T","r","e","e">>, variant |-> "CollapsingMergeTree"],
       [prefix |-> <<"D","i","s","t","r","i","b","u","t","e","d">>, variant |-> "Distributed"],
       [prefix |-> <<"L","o","g">>, variant |-> "Log"] >>

\* The engine names system.tables reports: those of the cases, the other
\* variants of the Engine, and one that is no variant.
EngineNames ==
    {EnginePrefixes[k].prefix : k \in 1..Len(EnginePrefixes)}
    \cup {<<"A","g","g","r","e","g","a","t","i","n","g","M","e","r","g","e","T","r","e","e">>, <<"R","e","p","l","i","c","a","t","e","d","A","g","g","r","e","g","a","t","i","n","g","M","e","r","g","e","T","r","e","e">>, <<"K","a","f","k","a">>,
          <<"U","n","s","u","p","p","o","r","t","e","d","E","n","g","i","n","e">>}

\* The parameter lists of the declarations, as written after the engine name.
ParameterTexts ==
    {<<>>, <<"(",")">>, <<"(","'","/","c","h","/","t","'",")">>, <<"(","'","/","c","h","/","t","'",","," ","'","{","r","e","p","l","i","c","a","}","'",")">>,
     <<"(","'","/","c","h","/","t","'",","," ","'","{","r","e","p","l","i","c","a","}","'",","," ","v","e","r",")">>, <<"(","v","e","r",")">>, <<"(","v","e","r",","," ","e","x","t","r","a",")">>,
     <<"(","c","l","u","s","t","e","r","1",","," ","d","b",","," ","t","b","l",")">>, <<"(","c","l","u","s","t","e","r","1",","," ","d","b",","," ","t","b","l",","," ","r","a","n","d","(",")",")">>,
     <<"(","'","c","l","u","s","t","e","r","'",","," ","'","d","b","'",","," ","'","t","a","b","l","e","'",","," ","'","s","h","a","r","d","F","u","n","c","(","a",","," ","b",")","'",")">>,
     <<"(","a",","," ","b",","," ","c",","," ","d",","," ","e",")">>, <<"(","(","v","a","l","1",","," ","v","a","l","2",")",")">>,
     <<"(","\"","a",","," ","'","b","\"",","," ","c",")">>, <<"(","'","/","c","h","/","t","'",","," ",")">>}

\* The clauses that follow the declaration in engine_full.
TrailingClauses ==
    {<<>>, <<" ","O","R","D","E","R"," ","B","Y"," ","i","d">>, <<" ","S","E","T","T","I","N","G","S"," ","i","n","d","e","x","_","g","r","a","n","u","l","a","r","i","t","y"," ","="," ","8","1","9","2">>,
     <<" ","P","A","R","T","I","T","I","O","N"," ","B","Y"," ","t","o","Y","Y","Y","Y","M","M","(","t","s",")"," ","O","R","D","E","R"," ","B","Y"," ","(","i","d",","," ","t","s",")"," ","S","E","T","T","I","N","G","S"," ","i","n","d","e","x","_","g","r","a","n","u","l","a","r","i","t","y"," ","="," ","8","1","9","2">>,
     <<"\n">> \o <<" ","O","R","D","E","R"," ","B","Y"," ","(","i","d",","," ","t","s",")">> \o <<"\n">>, <<" ","o","r","d","e","r"," ","b","y"," ","(","i","d",","," ","t","s",")">>}

\* The rows of system.tables: engine, and engine_full made of the name, a
\* parameter list and trailing clauses (or empty).
EngineRows ==
    {[engine |-> n, declaration |-> n \o p, trailing |-> t] :
        n \in EngineNames, p \in ParameterTexts, t \in TrailingClauses}
    \cup {[engine |-> n, declaration |-> <<>>, trailing |-> <<>>] : n \in EngineNames}

ParseInit ==
    /\ pc = "row"
    /\ \E row \in EngineRows :
          /\ engineName = row.engine
          /\ engineFull = row.declaration \o row.trailing
    /\ engineDecl = <<>> /\ params = <<>>
    /\ parsed = Ok(NoEngine)
    /\ engineTable = NoTable /\ ddl = <<>> /\ ddl2 = <<>>
    /\ desired = [Tables |-> <<>>] /\ current = [Tables |-> <<>>]
    /\ plan = <<>> /\ planErr = Nil /\ statements = Ok(<<>>) /\ rerun = NoRerun
    /\ db = <<>> /\ executed = 0 /\ omitted = 0
    /\ NoExecute
    /\ NoIntrospect /\ NoRender /\ NoLoad

\* ParseEngine(engineName, engineFull)
DoParseEngine ==
    /\ pc = "row"
    /\ parsed' = ParseEngine(engineName, engineFull)
    /\ pc' = "parsedEngine"
    /\ UNCHANGED <<migrationVars, executeVars, parseVars, engineTable, ddl, ddl2, introspectVars, renderVars, loadVars>>

\* extractEngineDeclaration(engineFull), ParseEngine's first step.
DoExtractEngineDeclaration ==
    /\ pc = "row"
    /\ engineDecl' = extractEngineDeclaration(engineFull)
    /\ pc' = "declared"
    /\ UNCHANGED <<migrationVars, executeVars, roundTripVars, engineName, engineFull, params, introspectVars, renderVars, loadVars>>

\* extractParameters(engineDecl), the first step of the parse functions.
DoExtractParameters ==
    /\ pc = "declared"
    /\ params' = extractParameters(engineDecl)
    /\ pc' = "extracted"
    /\ UNCHANGED <<migrationVars, executeVars, roundTripVars, engineName, engineFull, engineDecl, introspectVars, renderVars, loadVars>>

ParseNext == DoParseEngine \/ DoExtractEngineDeclaration \/ DoExtractParameters

EngineParse == ParseInit /\ [][ParseNext]_vars

(***************************************************************************)
(* Properties of the engine parser                                         *)
(***************************************************************************)
\* s begins with the characters of p.
BeginsWith(s, p) == Len(s) >= Len(p) /\ \A k \in 1..Len(p) : s[k] = p[k]

\* The declaration ParseEngine dispatches on: the cleaned engine_full, or the
\* engine name when that is empty.
Dispatched ==
    IF extractEngineDeclaration(engineFull) = <<>> THEN engineName
    ELSE extractEngineDeclaration(engineFull)

\* The cases of the switch whose engine name begins the dispatched declaration.
CasesOf(decl) ==
    {k \in 1..Len(EnginePrefixes) : BeginsWith(decl, EnginePrefixes[k].prefix)}

\* C11 (no prefix shadowing): a declaration that begins with the engine name
\* of a case of ParseEngine begins with the name of no other case, and is
\* parsed by that case: the Engine returned is of its variant, and an error
\* returned is that of its parse function.
C11_NoPrefixShadowing ==
    pc = "parsedEngine" =>
        \A k \in CasesOf(Dispatched) :
            /\ CasesOf(Dispatched) = {k}
            /\ parsed.err = Nil => parsed.val.EngineType = EnginePrefixes[k].variant
            /\ parsed.err # Nil => BeginsWith(Deref(parsed.err), EnginePrefixes[k].prefix)

\* A Replicated* declaration with its parameters has been parsed as the
\* replicated variant.
C11_Witness ==
    /\ pc = "parsedEngine"
    /\ BeginsWith(Dispatched, <<"R","e","p","l","i","c","a","t","e","d","R","e","p","l","a","c","i","n","g","M","e","r","g","e","T","r","e","e","(">>)
    /\ parsed.err = Nil
    /\ parsed.val.EngineType = "ReplicatedReplacingMergeTree"
    /\ parsed.val.VersionColumn = Ptr(<<"v","e","r">>)

\* C12 (aggregating variants): ParseEngine returns, without error, an Engine
\* of the AggregatingMergeTree variant for "AggregatingMergeTree ORDER BY id"
\* and "AggregatingMergeTree() ORDER BY id", and one of the
\* ReplicatedAggregatingMergeTree variant that carries the path and the replica
\* for "ReplicatedAggregatingMergeTree('<path>', '<replica>') ORDER BY id".
C12_AggregatingAccepted ==
    /\ ( /\ pc = "parsedEngine"
         /\ engineName = <<"A","g","g","r","e","g","a","t","i","n","g","M","e","r","g","e","T","r","e","e">>
         /\ engineFull \in {<<"A","g","g","r","e","g","a","t","i","n","g","M","e","r","g","e","T","r","e","e"," ","O","R","D","E","R"," ","B","Y"," ","i","d">>,
                            <<"A","g","g","r","e","g","a","t","i","n","g","M","e","r","g","e","T","r","e","e","(",")"," ","O","R","D","E","R"," ","B","Y"," ","i","d">>} )
       => parsed.err = Nil /\ parsed.val.EngineType = "AggregatingMergeTree"
    /\ ( /\ pc = "parsedEngine"
         /\ engineName = <<"R","e","p","l","i","c","a","t","e","d","A","g","g","r","e","g","a","t","i","n","g","M","e","r","g","e","T","r","e","e">>
         /\ engineFull = <<"R","e","p","l","i","c","a","t","e","d","A","g","g","r","e","g","a","t","i","n","g","M","e","r","g","e","T","r","e","e","(","'","/","c","h","/","t","'",","," ","'","{","r","e","p","l","i","c","a","}","'",")"," ","O","R","D","E","R"," ","B","Y"," ","i","d">> )
       => /\ parsed.err = Nil
          /\ parsed.val.EngineType = "ReplicatedAggregatingMergeTree"
          /\ parsed.val.ZooPath = <<"/","c","h","/","t">>
          /\ parsed.val.ReplicaName = <<"{","r","e","p","l","i","c","a","}">>

\* The number of parameters extracted from the dispatched declaration.
Arity == Len(extractParameters(Dispatched))

\* The parameters a variant cannot do without (those its parse function reads
\* unconditionally).
Required(variant) ==
    CASE variant = "ReplicatedMergeTree" -> 2
      [] variant = "ReplicatedReplacingMergeTree" -> 2
      [] variant = "CollapsingMergeTree" -> 1
      [] variant = "ReplicatedCollapsingMergeTree" -> 3
      [] variant = "Distributed" -> 3
      [] OTHER -> 0

\* C13 (missing parameters): ParseEngine on a declaration with fewer
\* parameters than its variant requires returns an error and no Engine.
C13_MissingParametersFail ==
    pc = "parsedEngine" =>
        \A k \in CasesOf(Dispatched) :
            Arity < Required(EnginePrefixes[k].variant)
                => parsed.err # Nil /\ parsed.val = <<>> /\ ~ parsed.panic

\* ReplicatedMergeTree('/ch/t') ORDER BY id, one parameter, has been refused.
C13_Witness ==
    /\ pc = "parsedEngine"
    /\ engineFull = <<"R","e","p","l","i","c","a","t","e","d","M","e","r","g","e","T","r","e","e","(","'","/","c","h","/","t","'",")"," ","O","R","D","E","R"," ","B","Y"," ","i","d">>
    /\ Arity = 1
    /\ parsed.err # Nil

\* The numbers of parameters a variant is specified to accept.
Allowed(variant) ==
    CASE variant = "ReplicatedMergeTree" -> {2}
      [] variant = "ReplacingMergeTree" -> {0, 1}
      [] variant = "ReplicatedReplacingMergeTree" -> {2, 3}
      [] variant = "CollapsingMergeTree" -> {1}
      [] variant = "ReplicatedCollapsingMergeTree" -> {3}
      [] variant = "Distributed" -> {3, 4}
      [] OTHER -> Nat

\* C14 (exact arity): ParseEngine succeeds only when the number of extracted
\* parameters is one the variant accepts, and returns an error for any other
\* number, above the maximum included.
C14_ExactArity ==
    pc = "parsedEngine" =>
        \A k \in CasesOf(Dispatched) :
            Arity \notin Allowed(EnginePrefixes[k].variant) => parsed.err # Nil

RECURSIVE OpenQuote(_, _)
\* The quote character of the quoted section that is open after the first i
\* characters of content, Nil if none is: a quote character opens a section,
\* the same character closes it.
OpenQuote(content, i) ==
    IF i = 0 THEN Nil
    ELSE LET before == OpenQuote(content, i - 1)
         IN  IF before = Nil
             THEN IF content[i] \in {"'", "\""} THEN Ptr(content[i]) ELSE Nil
             ELSE IF content[i] = Deref(before) THEN Nil ELSE before

\* The positions of the commas of content that no quoted section encloses.
SplitPoints(content) ==
    {i \in 1..Len(content) : content[i] = "," /\ OpenQuote(content, i - 1) = Nil}

\* The pieces of content between those commas, in order.
Pieces(content) ==
    LET cuts   == SplitPoints(content) \cup {0, Len(content) + 1}
        cut(k) == CHOOSE i \in cuts : Cardinality({j \in cuts : j < i}) = k
    IN  [k \in 1..(Cardinality(cuts) - 1) |->
            SubSeq(content, cut(k - 1) + 1, cut(k) - 1)]

\* The text between the first "(" and the last ")" of a declaration, Nil if
\* there is no such pair.
Interior(decl) ==
    LET opens  == {i \in 1..Len(decl) : decl[i] = "("}
        closes == {i \in 1..Len(decl) : decl[i] = ")"}
        first  == CHOOSE i \in opens : \A j \in opens : i <= j
        last   == CHOOSE i \in closes : \A j \in closes : i >= j
    IN  IF opens = {} \/ closes = {} THEN Nil
        ELSE IF first >= last THEN Nil
        ELSE Ptr(SubSeq(decl, first + 1, last - 1))

\* A piece trimmed of surrounding white space, then of surrounding quotes.
Trimmed(piece) == Trim(TrimSpace(piece), {"'", "\""})

\* The parameters of a declaration: every piece of the interior, trimmed; none
\* without parentheses or with empty ones.
AllPieces(decl) ==
    IF Interior(decl) = Nil THEN <<>>
    ELSE IF TrimSpace(Deref(Interior(decl))) = <<>> THEN <<>>
    ELSE LET pieces == Pieces(Deref(Interior(decl)))
         IN  [k \in 1..Len(pieces) |-> Trimmed(pieces[k])]

\* The same, without the last piece when it is empty or white space (the
\* interior ends with a comma outside quotes).
PiecesButEmptyLast(decl) ==
    IF Interior(decl) = Nil THEN <<>>
    ELSE IF TrimSpace(Deref(Interior(decl))) = <<>> THEN <<>>
    ELSE LET pieces == Pieces(Deref(Interior(decl)))
             kept   == IF TrimSpace(pieces[Len(pieces)]) = <<>>
                       THEN SubSeq(pieces, 1, Len(pieces) - 1) ELSE pieces
         IN  [k \in 1..Len(kept) |-> Trimmed(kept[k])]

\* C15 (quote-aware splitting), as claimed: extractParameters returns every
\* piece of the text between the first "(" and the last ")", split on the
\* commas outside quoted sections, each trimmed of space and then of quotes.
C15_SplitOnUnquotedCommas ==
    pc = "extracted" => params = AllPieces(engineDecl)

\* C15 (quote-aware splitting), as the code does it: the same pieces, but a
\* last piece that is empty (the text ends with a comma) is not a parameter.
C15_SplitOnUnquotedCommasButEmptyLast ==
    pc = "extracted" => params = PiecesButEmptyLast(engineDecl)

\* The four parameters of Distributed('cluster', 'db', 'table',
\* 'shardFunc(a, b)') have been extracted.
C15_Witness ==
    /\ pc = "extracted"
    /\ engineDecl = <<"D","i","s","t","r","i","b","u","t","e","d","(","'","c","l","u","s","t","e","r","'",","," ","'","d","b","'",","," ","'","t","a","b","l","e","'",","," ","'","s","h","a","r","d","F","u","n","c","(","a",","," ","b",")","'",")">>
    /\ params = <<<<"c","l","u","s","t","e","r">>, <<"d","b">>, <<"t","a","b","l","e">>, <<"s","h","a","r","d","F","u","n","c","(","a",","," ","b",")">>>>

\* The tokens that begin the trailing clauses of engine_full.
ClauseTokens == {<<"O","R","D","E","R"," ","B","Y">>, <<"P","A","R","T","I","T","I","O","N"," ","B","Y">>, <<"S","E","T","T","I","N","G","S">>}

\* The positions of text at which one of the tokens is written.
TokenPositions(text) ==
    {i \in 1..Len(text) :
        \E token \in ClauseTokens :
            /\ i + Len(token) - 1 <= Len(text)
            /\ \A k \in 1..Len(token) : text[i + k - 1] = token[k]}

\* text up to the leftmost token, the whole text if it holds none.
BeforeFirstToken(text) ==
    IF TokenPositions(text) = {} THEN text
    ELSE SubSeq(text, 1, (CHOOSE i \in TokenPositions(text) :
                             \A j \in TokenPositions(text) : i <= j) - 1)

\* The rows of system.tables the parser is working on.
CurrentRows ==
    {row \in EngineRows :
        engineName = row.engine /\ engineFull = row.declaration \o row.trailing}

C17_UnsupportedEngine ==
    pc = "parsedEngine" /\ CasesOf(Dispatched) = {} =>
        /\ parsed.val = <<>>
        /\ ~ parsed.panic
        /\ parsed.err = Ptr(<<"u","n","s","u","p","p","o","r","t","e","d"," ","e","n","g","i","n","e"," ","t","y","p","e",":"," ">> \o engineName)

\* UnsupportedEngine() has been refused under its name.
C17_Witness ==
    /\ pc = "parsedEngine"
    /\ engineName = <<"U","n","s","u","p","p","o","r","t","e","d","E","n","g","i","n","e">>
    /\ engineFull = <<"U","n","s","u","p","p","o","r","t","e","d","E","n","g","i","n","e","(",")">>
    /\ parsed.err = Ptr(<<"u","n","s","u","p","p","o","r","t","e","d"," ","e","n","g","i","n","e"," ","t","y","p","e",":"," ","U","n","s","u","p","p","o","r","t","e","d","E","n","g","i","n","e">>)

(***************************************************************************)
(* Rendering and executing a plan of any actions: GenerateSQL and          *)
(* Executor.Execute take Actions whose Payload is an interface{}           *)
(***************************************************************************)
\* Actions whose payload has the shape their type requires.
ShapedActions ==
    {[Type |-> ActionCreateTable, Reason |-> <<>>,
      Payload |-> Iface(TypeTable, Table(users, <<colId>>, [EngineType |-> "MergeTree"], <<id>>))],
     [Type |-> ActionDropTable, Reason |-> <<>>,
      Payload |-> Iface(TypeString, legacy_table)],
     [Type |-> ActionAddColumn, Reason |-> <<>>,
      Payload |-> Iface(TypeMap, [table  |-> Iface(TypeString, users),
                                  column |-> Iface(TypeColumn, colEmail)])],
     [Type |-> ActionDropColumn, Reason |-> <<>>,
      Payload |-> Iface(TypeMap, [table       |-> Iface(TypeString, users),
                                  column_name |-> Iface(TypeString, old_name)])]}

\* Actions whose payload has another shape, and an action of no known type.
MisshapedActions ==
    {[Type |-> ActionCreateTable, Reason |-> <<>>,
      Payload |-> Iface(TypeString, users)],
     [Type |-> ActionDropTable, Reason |-> <<>>,
      Payload |-> Iface(TypeTable, Table(users, <<colId>>, [EngineType |-> "MergeTree"], <<id>>))],
     [Type |-> ActionAddColumn, Reason |-> <<>>,
      Payload |-> Iface(TypeString, users)],
     [Type |-> ActionAddColumn, Reason |-> <<>>,
      Payload |-> Iface(TypeMap, [column |-> Iface(TypeColumn, colEmail)])],
     [Type |-> ActionAddColumn, Reason |-> <<>>,
      Payload |-> Iface(TypeMap, [table  |-> Iface(TypeString, users),
                                  column |-> Iface(TypeString, email)])],
     [Type |-> ActionDropColumn, Reason |-> <<>>,
      Payload |-> Iface(TypeString, users)],
     [Type |-> ActionDropColumn, Reason |-> <<>>,
      Payload |-> Iface(TypeMap, [table |-> Iface(TypeString, users)])],
     [Type |-> <<"R","E","N","A","M","E","_","T","A","B","L","E">>, Reason |-> <<>>,
      Payload |-> Iface(TypeString, users)]}

\* The plans of at most MaxActions of these actions.
Plans == UNION {[1..n -> ShapedActions \cup MisshapedActions] : n \in 0..MaxActions}

\* The errors conn.Exec returns: none, or one of the server.
ExecErrors == {Nil, Ptr(<<"c","o","d","e",":"," ","6","0",","," ","m","e","s","s","a","g","e",":"," ","T","a","b","l","e"," ","d","e","f","a","u","l","t",".","u","s","e","r","s"," ","d","o","e","s"," ","n","o","t"," ","e","x","i","s","t">>)}

ApplyInit ==
    /\ pc = "actions"
    /\ plan \in Plans
    /\ planErr = Nil /\ statements = Ok(<<>>) /\ rerun = NoRerun
    /\ desired = [Tables |-> <<>>] /\ current = [Tables |-> <<>>]
    /\ db = <<>> /\ executed = 0 /\ omitted = 0
    /\ engineTable = NoTable /\ ddl = <<>> /\ parsed = Ok(NoEngine) /\ ddl2 = <<>>
    /\ NoParse
    /\ NoExecute
    /\ NoIntrospect /\ NoRender /\ NoLoad

\* sqlGen.GenerateSQL(plan.Actions)
CallGenerateSQL ==
    /\ pc = "actions"
    /\ statements' = GenerateSQL(plan)
    /\ pc' = "sql"
    /\ UNCHANGED <<desired, current, plan, planErr, rerun, db, executed, omitted,
                   roundTripVars, parseVars, executeVars, introspectVars, renderVars, loadVars>>

\* Executor.Execute(ctx, plan) up to its loop: an empty plan returns nil.
ExecuteStart ==
    /\ pc = "actions"
    /\ pc' = IF Len(plan) = 0 THEN "returned" ELSE "executing plan"
    /\ UNCHANGED <<migrationVars, roundTripVars, parseVars, executeVars, introspectVars, renderVars, loadVars>>

\* A faulty variant of ExecuteStatement: the loop goes on to the next action
\* after a statement the database refuses, and the error is lost.
ExecuteStatementRegardless ==
    /\ pc = "executing plan"
    /\ executed < Len(plan)
    /\ LET action == plan[executed + 1]
           sql    == GenerateActionSQL(action)
       IN  IF sql.panic \/ sql.err # Nil \/ sql.val = <<>>
           THEN /\ executed' = executed + 1
                /\ UNCHANGED <<pc, issued, result, introspectVars, renderVars, loadVars>>
           ELSE \E err \in ExecErrors :
                   /\ issued' = Append(issued, [ddl |-> sql.val, err |-> err])
                   /\ executed' = executed + 1
                   /\ UNCHANGED <<pc, result, introspectVars, renderVars, loadVars>>
    /\ UNCHANGED <<desired, current, plan, planErr, statements, rerun, db, omitted,
                   roundTripVars, parseVars, introspectVars, renderVars, loadVars>>

\* One iteration of Execute's loop, on the action after the executed ones:
\* GenerateActionSQL, whose panic or error ends Execute; an empty statement is
\* skipped; conn.Exec of the statement, whose error ends Execute.
ExecuteStatement ==
    /\ pc = "executing plan"
    /\ executed < Len(plan)
    /\ LET action == plan[executed + 1]
           sql    == GenerateActionSQL(action)
       IN  IF sql.panic
           THEN /\ result' = Panic /\ pc' = "panicked"
                /\ UNCHANGED <<issued, executed, introspectVars, renderVars, loadVars>>
           ELSE IF sql.err # Nil
           THEN /\ result' = Err(<<"f","a","i","l","e","d"," ","t","o"," ","g","e","n","e","r","a","t","e"," ","D","D","L"," ","f","o","r"," ","a","c","t","i","o","n"," ">>
                                 \o action.Type \o <<":"," ">> \o Deref(sql.err))
                /\ pc' = "returned"
                /\ UNCHANGED <<issued, executed, introspectVars, renderVars, loadVars>>
           ELSE IF sql.val = <<>>
           THEN /\ executed' = executed + 1
                /\ UNCHANGED <<pc, issued, result, introspectVars, renderVars, loadVars>>
           ELSE \E err \in ExecErrors :
                   /\ issued' = Append(issued, [ddl |-> sql.val, err |-> err])
                   /\ IF err # Nil
                      THEN /\ result' = Err(<<"f","a","i","l","e","d"," ","t","o"," ","e","x","e","c","u","t","e"," ","D","D","L",":"," ">> \o Deref(err))
                           /\ pc' = "returned"
                           /\ UNCHANGED executed
                      ELSE /\ executed' = executed + 1
                           /\ UNCHANGED <<pc, result, introspectVars, renderVars, loadVars>>
    /\ UNCHANGED <<desired, current, plan, planErr, statements, rerun, db, omitted,
                   roundTripVars, parseVars, introspectVars, renderVars, loadVars>>

\* Execute returns nil after the last action.
ExecuteReturn ==
    /\ pc = "executing plan"
    /\ executed = Len(plan)
    /\ pc' = "returned"
    /\ UNCHANGED <<migrationVars, roundTripVars, parseVars, executeVars, introspectVars, renderVars, loadVars>>

ApplyNext == CallGenerateSQL \/ ExecuteStart \/ ExecuteStatement \/ ExecuteReturn

Apply == ApplyInit /\ [][ApplyNext]_vars

(***************************************************************************)
(* Properties of the generator and of the executor on any plan             *)
(***************************************************************************)
\* C18 (invalid payload): for an action whose payload has not the shape its
\* type requires, and for an action of unknown type, GenerateActionSQL
\* returns an error value, no statement and no panic; so GenerateSQL of a
\* plan that holds such an action returns an error value.
C18_MisshapedPayloadIsAnError ==
    pc = "sql" /\ (\E i \in 1..Len(plan) : plan[i] \in MisshapedActions) =>
        /\ \A i \in 1..Len(plan) :
              plan[i] \in MisshapedActions =>
                 /\ GenerateActionSQL(plan[i]).err # Nil
                 /\ ~ GenerateActionSQL(plan[i]).panic
        /\ statements.err # Nil
        /\ ~ statements.panic

\* The statements of the first n actions of the plan, in plan order.
StatementsOf(n) == [i \in 1..n |-> GenerateActionSQL(plan[i]).val]

\* The action Execute is at fails to render: GenerateActionSQL returns an
\* error or panics.
FailsToRender(i) ==
    GenerateActionSQL(plan[i]).err # Nil \/ GenerateActionSQL(plan[i]).panic

\* C20 (executor ordering): the statements Execute has passed to the database
\* are those of a prefix of the plan, one per action and in plan order, and
\* only the last of them can have failed; once Execute has failed, on an
\* action that does not render or on a statement the database refuses, the
\* statements executed are exactly those of the actions before the failing
\* one; and Execute returns nil only after executing every action.
C20_ExecutorOrdering ==
    pc \in {"executing plan", "returned", "panicked"} =>
        /\ Len(issued) <= Len(plan)
        /\ \A i \in 1..Len(issued) :
              /\ issued[i].ddl = StatementsOf(Len(issued))[i]
              /\ issued[i].err # Nil => i = Len(issued) /\ pc = "returned"
        /\ executed = Cardinality({i \in 1..Len(issued) : issued[i].err = Nil})
        /\ (pc = "panicked" \/ (pc = "returned" /\ result.err # Nil)) =>
              /\ executed < Len(plan)
              /\ \A i \in 1..executed : issued[i].err = Nil
              /\ \/ Len(issued) = executed /\ FailsToRender(executed + 1)
                 \/ Len(issued) = executed + 1 /\ issued[executed + 1].err # Nil
        /\ (pc = "returned" /\ result.err = Nil) =>
              /\ executed = Len(plan)
              /\ Len(issued) = Len(plan)
              /\ \A i \in 1..Len(plan) : issued[i].err = Nil

\* Execute has failed on the second action of a plan after executing the first.
C20_Witness ==
    /\ pc = "returned"
    /\ Len(plan) = 2
    /\ result.err # Nil
    /\ executed = 1
    /\ Len(issued) = 2
    /\ issued[2].err # Nil

(***************************************************************************)
(* The Introspector: GetCurrentState over the rows of system.tables        *)
(***************************************************************************)
\* The most rows of system.tables, and the most GetCurrentState calls on one
\* Introspector.
MaxCatalog == 3
MaxPasses == 2

RECURSIVE SplitString(_, _)
\* strings.Split(s, sep).
SplitString(s, sep) ==
    IF Index(s, sep) = -1 THEN <<s>>
    ELSE <<Slice(s, 0, Index(s, sep))>>
         \o SplitString(Slice(s, Index(s, sep) + Len(sep), Len(s)), sep)

\* A Go map[string]int is the function of its entries.  m[k], which is 0 for
\* a key the map does not hold, and m[k] = v:
Count(m, k) == IF k \in DOMAIN m THEN m[k] ELSE 0
Put(m, k, v) == [x \in DOMAIN m \cup {k} |-> IF x = k THEN v ELSE m[x]]

\* The engines the query of introspectTables selects.
SelectedEngines ==
    {<<"M","e","r","g","e","T","r","e","e">>, <<"R","e","p","l","i","c","a","t","e","d","M","e","r","g","e","T","r","e","e">>, <<"R","e","p","l","a","c","i","n","g","M","e","r","g","e","T","r","e","e">>,
     <<"R","e","p","l","i","c","a","t","e","d","R","e","p","l","a","c","i","n","g","M","e","r","g","e","T","r","e","e">>, <<"S","u","m","m","i","n","g","M","e","r","g","e","T","r","e","e">>, <<"C","o","l","l","a","p","s","i","n","g","M","e","r","g","e","T","r","e","e">>,
     <<"R","e","p","l","i","c","a","t","e","d","C","o","l","l","a","p","s","i","n","g","M","e","r","g","e","T","r","e","e">>, <<"A","g","g","r","e","g","a","t","i","n","g","M","e","r","g","e","T","r","e","e">>,
     <<"R","e","p","l","i","c","a","t","e","d","A","g","g","r","e","g","a","t","i","n","g","M","e","r","g","e","T","r","e","e">>, <<"D","i","s","t","r","i","b","u","t","e","d">>, <<"L","o","g">>}

\* The rows of system.columns of a table: a column without default, codec and
\* comment, for which ClickHouse reports empty strings, and one with all three.
ColumnRows ==
    << [name |-> id, type |-> <<"U","I","n","t","6","4">>, default_expression |-> <<>>,
        compression_codec |-> <<>>, comment |-> <<>>],
       [name |-> <<"t","s">>, type |-> <<"D","a","t","e","T","i","m","e">>, default_expression |-> <<"n","o","w","(",")">>,
        compression_codec |-> <<"C","O","D","E","C","(","Z","S","T","D",")">>, comment |-> <<"w","h","e","n">>] >>

\* What a row of system.tables can hold: tables whose engine ParseEngine
\* parses, a table with a malformed declaration, a table of a selected engine
\* ParseEngine has no case for, a table of an engine no query selects, a
\* materialized view and a view.
CatalogKinds ==
    {[engine |-> <<"M","e","r","g","e","T","r","e","e">>,
      engine_full |-> <<"M","e","r","g","e","T","r","e","e"," ","P","A","R","T","I","T","I","O","N"," ","B","Y"," ","t","o","Y","Y","Y","Y","M","M","(","t","s",")"," ","O","R","D","E","R"," ","B","Y"," ","(","i","d",","," ","t","s",")"," ","S","E","T","T","I","N","G","S"," ","i","n","d","e","x","_","g","r","a","n","u","l","a","r","i","t","y"," ","="," ","8","1","9","2">>,
      sorting_key |-> <<"i","d",","," ","t","s">>, partition_key |-> <<"t","o","Y","Y","Y","Y","M","M","(","t","s",")">>, as_select |-> <<>>],
     [engine |-> <<"L","o","g">>, engine_full |-> <<"L","o","g">>,
      sorting_key |-> <<>>, partition_key |-> <<>>, as_select |-> <<>>],
     [engine |-> <<"R","e","p","l","i","c","a","t","e","d","M","e","r","g","e","T","r","e","e">>,
      engine_full |-> <<"R","e","p","l","i","c","a","t","e","d","M","e","r","g","e","T","r","e","e","(","'","/","c","h","/","t","'",")"," ","O","R","D","E","R"," ","B","Y"," ","i","d">>,
      sorting_key |-> <<"i","d">>, partition_key |-> <<>>, as_select |-> <<>>],
     [engine |-> <<"A","g","g","r","e","g","a","t","i","n","g","M","e","r","g","e","T","r","e","e">>,
      engine_full |-> <<"A","g","g","r","e","g","a","t","i","n","g","M","e","r","g","e","T","r","e","e"," ","O","R","D","E","R"," ","B","Y"," ","i","d">>,
      sorting_key |-> <<"i","d">>, partition_key |-> <<>>, as_select |-> <<>>],
     [engine |-> <<"K","a","f","k","a">>, engine_full |-> <<"K","a","f","k","a">>,
      sorting_key |-> <<>>, partition_key |-> <<>>, as_select |-> <<>>],
     [engine |-> <<"M","a","t","e","r","i","a","l","i","z","e","d","V","i","e","w">>, engine_full |-> <<"M","a","t","e","r","i","a","l","i","z","e","d","V","i","e","w">>,
      sorting_key |-> <<>>, partition_key |-> <<>>, as_select |-> <<"S","E","L","E","C","T"," ","i","d"," ","F","R","O","M"," ","t">>],
     [engine |-> <<"V","i","e","w">>, engine_full |-> <<>>,
      sorting_key |-> <<>>, partition_key |-> <<>>, as_select |-> <<"S","E","L","E","C","T"," ","i","d"," ","F","R","O","M"," ","t">>]}

\* system.tables outside the system databases: up to MaxCatalog rows of the
\* database default, named t1, t2, ... and so ordered by name.
Catalogs ==
    {[k \in 1..Len(kinds) |-> [database |-> <<"d","e","f","a","u","l","t">>, name |-> <<"t">> \o Itoa(k),
                      engine |-> kinds[k].engine, engine_full |-> kinds[k].engine_full,
                      sorting_key |-> kinds[k].sorting_key,
                      partition_key |-> kinds[k].partition_key,
                      as_select |-> kinds[k].as_select]] :
        kinds \in UNION {[1..n -> CatalogKinds] : n \in 0..MaxCatalog}}

\* The rows a query with "engine IN engines" returns, ordered by name.
Rows(cat, engines) ==
    LET selected == {k \in 1..Len(cat) : cat[k].engine \in engines}
        nth(i)   == CHOOSE k \in selected : Cardinality({j \in selected : j < k}) = i - 1
    IN  [i \in 1..Cardinality(selected) |-> cat[nth(i)]]

\* introspectAllTables: SkippedEngines after it, the number of rows of every
\* engine of the catalog; the entries of other engines stay.
introspectAllTables(skipped, cat) ==
    LET engineTables == [e \in {cat[k].engine : k \in 1..Len(cat)} |->
                            [i \in 1..Len(Rows(cat, {e})) |-> Rows(cat, {e})[i].name]]
    IN  [e \in DOMAIN skipped \cup DOMAIN engineTables |->
            IF e \in DOMAIN engineTables THEN Len(engineTables[e]) ELSE skipped[e]]

\* parseTableEngine: the table with its ORDER BY, PARTITION BY and Engine set,
\* or the error of ParseEngine.
parseTableEngine(tbl, engine, engine_full, sortingKey, partitionKey) ==
    LET keyed == [tbl EXCEPT
                    !.OrderBy = IF sortingKey # <<>> THEN SplitString(sortingKey, <<","," ">>) ELSE @,
                    !.PartitionBy = IF partitionKey # <<>> THEN Ptr(partitionKey) ELSE @]
        parsedEngine == ParseEngine(engine, engine_full)
    IN  IF parsedEngine.err # Nil
        THEN Err(<<"f","a","i","l","e","d"," ","t","o"," ","p","a","r","s","e"," ","e","n","g","i","n","e",":"," ">> \o Deref(parsedEngine.err))
        ELSE Ok([keyed EXCEPT !.Engine = parsedEngine.val])

\* introspectColumns: the columns of the rows of system.columns; an empty
\* default_expression, compression_codec or comment gives an absent field.
introspectColumns(rows) ==
    [k \in 1..Len(rows) |->
        [Name |-> rows[k].name, Type |-> rows[k].type,
         DefaultExpression |-> IF rows[k].default_expression # <<>>
                               THEN Ptr(rows[k].default_expression) ELSE Nil,
         Codec |-> IF rows[k].compression_codec # <<>>
                   THEN Ptr(rows[k].compression_codec) ELSE Nil,
         Comment |-> IF rows[k].comment # <<>> THEN Ptr(rows[k].comment) ELSE Nil]]

\* NewDesiredState(): the state GetCurrentState builds.
NewState == [Tables |-> <<>>, MaterializedViews |-> <<>>, Views |-> <<>>]

\* NewIntrospector(conn) on a catalog.
IntrospectInit ==
    /\ pc = "introspector"
    /\ catalog \in Catalogs
    /\ DumpedEngines = <<>> /\ SkippedEngines = <<>>
    /\ snapshot = NewState /\ cursor = 0 /\ passes = 0 /\ introErr = Nil
    /\ desired = [Tables |-> <<>>] /\ current = [Tables |-> <<>>]
    /\ plan = <<>> /\ planErr = Nil /\ statements = Ok(<<>>) /\ rerun = NoRerun
    /\ db = <<>> /\ executed = 0 /\ omitted = 0
    /\ engineTable = NoTable /\ ddl = <<>> /\ parsed = Ok(NoEngine) /\ ddl2 = <<>>
    /\ NoParse /\ NoExecute /\ NoRender /\ NoLoad

\* GetCurrentState up to its first loop: a new state, then introspectAllTables.
\* It is called on a new Introspector or on one whose last call has returned.
GetCurrentState ==
    /\ pc \in {"introspector", "returned state"}
    /\ passes < MaxPasses
    /\ passes' = passes + 1
    /\ snapshot' = NewState
    /\ introErr' = Nil
    /\ SkippedEngines' = introspectAllTables(SkippedEngines, catalog)
    /\ cursor' = 1
    /\ pc' = "introspectTables"
    /\ UNCHANGED <<catalog, DumpedEngines>>
    /\ UNCHANGED <<migrationVars, roundTripVars, parseVars, executeVars, renderVars, loadVars>>

\* One turn of the loop of introspectTables: the table of the row, or the
\* return of GetCurrentState with the error of parseTableEngine and no state.
IntrospectTable ==
    /\ pc = "introspectTables"
    /\ cursor <= Len(Rows(catalog, SelectedEngines))
    /\ \E row \in {Rows(catalog, SelectedEngines)[cursor]} :
       \E r \in {parseTableEngine([Table(row.name, <<>>, NoEngine, <<>>)
                                      EXCEPT !.Database = Ptr(row.database)],
                                  row.engine, row.engine_full, row.sorting_key,
                                  row.partition_key)} :
           IF r.err # Nil
           THEN /\ introErr' = Ptr(<<"f","a","i","l","e","d"," ","t","o"," ","p","a","r","s","e"," ","e","n","g","i","n","e"," ","f","o","r"," ","t","a","b","l","e"," ">> \o row.name \o <<":"," ">>
                                   \o Deref(r.err))
                /\ snapshot' = Nil
                /\ pc' = "returned state"
                /\ UNCHANGED <<DumpedEngines, SkippedEngines, cursor>>
           ELSE /\ snapshot' = [snapshot EXCEPT !.Tables =
                                   Append(@, [r.val EXCEPT !.Columns = introspectColumns(ColumnRows)])]
                /\ DumpedEngines' = Put(DumpedEngines, row.engine,
                                        Count(DumpedEngines, row.engine) + 1)
                /\ SkippedEngines' = IF Count(SkippedEngines, row.engine) > 0
                                     THEN Put(SkippedEngines, row.engine,
                                              Count(SkippedEngines, row.engine) - 1)
                                     ELSE SkippedEngines
                /\ cursor' = cursor + 1
                /\ UNCHANGED <<introErr, pc>>
    /\ UNCHANGED <<catalog, passes>>
    /\ UNCHANGED <<migrationVars, roundTripVars, parseVars, executeVars, renderVars, loadVars>>

RECURSIVE Tally(_, _, _, _)
\* n turns of the counting at the end of a loop: DumpedEngines[engine]++ and
\* SkippedEngines[engine]-- while it is positive.
Tally(dumped, skipped, engine, n) ==
    IF n = 0 THEN [dumped |-> dumped, skipped |-> skipped]
    ELSE Tally(Put(dumped, engine, Count(dumped, engine) + 1),
               IF Count(skipped, engine) > 0
               THEN Put(skipped, engine, Count(skipped, engine) - 1) ELSE skipped,
               engine, n - 1)

\* introspectMaterializedViews, after the last row of introspectTables.
IntrospectMaterializedViews ==
    /\ pc = "introspectTables"
    /\ cursor > Len(Rows(catalog, SelectedEngines))
    /\ LET rows == Rows(catalog, {<<"M","a","t","e","r","i","a","l","i","z","e","d","V","i","e","w">>})
           t    == Tally(DumpedEngines, SkippedEngines, <<"M","a","t","e","r","i","a","l","i","z","e","d","V","i","e","w">>, Len(rows))
       IN  /\ snapshot' = [snapshot EXCEPT !.MaterializedViews =
                             [k \in 1..Len(rows) |->
                                 [Name |-> rows[k].name, Database |-> Ptr(rows[k].database),
                                  DestinationTable |-> <<>>, SelectQuery |-> rows[k].as_select]]]
           /\ DumpedEngines' = t.dumped
           /\ SkippedEngines' = t.skipped
    /\ pc' = "introspectViews"
    /\ UNCHANGED <<catalog, cursor, passes, introErr>>
    /\ UNCHANGED <<migrationVars, roundTripVars, parseVars, executeVars, renderVars, loadVars>>

\* introspectViews, and the return of GetCurrentState with the state.
IntrospectViews ==
    /\ pc = "introspectViews"
    /\ LET rows == Rows(catalog, {<<"V","i","e","w">>})
           t    == Tally(DumpedEngines, SkippedEngines, <<"V","i","e","w">>, Len(rows))
       IN  /\ snapshot' = [snapshot EXCEPT !.Views =
                             [k \in 1..Len(rows) |->
                                 [Name |-> rows[k].name, Database |-> Ptr(rows[k].database),
                                  SelectQuery |-> rows[k].as_select]]]
           /\ DumpedEngines' = t.dumped
           /\ SkippedEngines' = t.skipped
    /\ pc' = "returned state"
    /\ UNCHANGED <<catalog, cursor, passes, introErr>>
    /\ UNCHANGED <<migrationVars, roundTripVars, parseVars, executeVars, renderVars, loadVars>>

IntrospectNext ==
    \/ GetCurrentState
    \/ IntrospectTable
    \/ IntrospectMaterializedViews
    \/ IntrospectViews

Introspect == IntrospectInit /\ [][IntrospectNext]_vars

(***************************************************************************)
(* Properties of the Introspector                                          *)
(***************************************************************************)
\* The rows of the catalog with engine e.
TablesOfEngine(e) == {k \in 1..Len(catalog) : catalog[k].engine = e}

\* The rows introspectTables selects whose engine ParseEngine refuses.
Unparsable ==
    {k \in 1..Len(catalog) :
        /\ catalog[k].engine \in SelectedEngines
        /\ ParseEngine(catalog[k].engine, catalog[k].engine_full).err # Nil}

\* C21 (per-table failure isolation): when GetCurrentState has returned, it
\* has returned a state and no error, even if the engine of some table could
\* not be parsed; the state holds every table of a selected engine whose
\* engine parses, and every table whose engine does not parse is counted in
\* SkippedEngines under its engine.
C21_FailureIsolation ==
    pc = "returned state" =>
        /\ introErr = Nil
        /\ \A k \in 1..Len(catalog) :
              (catalog[k].engine \in SelectedEngines /\ k \notin Unparsable)
                 => \E i \in 1..Len(snapshot.Tables) :
                       snapshot.Tables[i].Name = catalog[k].name
        /\ \A k \in Unparsable :
              Count(SkippedEngines, catalog[k].engine)
                 >= Cardinality(Unparsable \cap TablesOfEngine(catalog[k].engine))

\* C30 (statistics accounting): after every GetCurrentState call that returned
\* a state, the first on an Introspector or a later one, for every engine
\* DumpedEngines and SkippedEngines add up to the number of tables of the
\* catalog with that engine, SkippedEngines is not negative, and the tables of
\* an engine no query selects are all skipped and none dumped.
C30_StatisticsAccounting ==
    (pc = "returned state" /\ introErr = Nil) =>
        \A e \in {catalog[k].engine : k \in 1..Len(catalog)} :
            /\ Count(DumpedEngines, e) + Count(SkippedEngines, e)
                  = Cardinality(TablesOfEngine(e))
            /\ Count(SkippedEngines, e) >= 0
            /\ e \notin SelectedEngines \cup {<<"M","a","t","e","r","i","a","l","i","z","e","d","V","i","e","w">>, <<"V","i","e","w">>}
                  => /\ Count(SkippedEngines, e) = Cardinality(TablesOfEngine(e))
                     /\ Count(DumpedEngines, e) = 0

(***************************************************************************)
(* Rendering: GenerateActionSQL on the actions of every kind               *)
(***************************************************************************)
\* The most entries of the Settings of a table.
MaxSettings == 2

\* An optional string: absent, present and empty, present with a text.
Optional(text) == {Nil, Ptr(<<>>), Ptr(text)}

\* The columns named email: each optional field absent, empty or filled.
RenderColumns ==
    {[Name |-> email, Type |-> <<"S","t","r","i","n","g">>, DefaultExpression |-> d, Codec |-> c, Comment |-> m] :
        d \in Optional(<<"'","n","o","n","e","'">>), c \in Optional(<<"C","O","D","E","C","(","Z","S","T","D",")">>), m \in Optional(<<"c","o","n","t","a","c","t">>)}

colTs == [Name |-> <<"t","s">>, Type |-> <<"D","a","t","e","T","i","m","e">>, DefaultExpression |-> Ptr(<<"n","o","w","(",")">>),
          Codec |-> Ptr(<<"C","O","D","E","C","(","D","e","l","t","a",","," ","L","Z","4",")">>), Comment |-> Ptr(<<"e","v","e","n","t"," ","t","i","m","e">>)]

idxEmail == [Name |-> <<"i","d","x","_","e","m","a","i","l">>, Expression |-> email, Type |-> <<"b","l","o","o","m","_","f","i","l","t","e","r","(",")">>,
             Granularity |-> 4]
idxTs    == [Name |-> <<"i","d","x","_","t","s">>, Expression |-> <<"t","o","D","a","t","e","(","t","s",")">>, Type |-> <<"m","i","n","m","a","x">>,
             Granularity |-> 1]

\* The entries a Settings map is made of.
SettingEntries ==
    {[key |-> <<"i","n","d","e","x","_","g","r","a","n","u","l","a","r","i","t","y">>, value |-> <<"8","1","9","2">>],
     [key |-> <<"t","t","l","_","o","n","l","y","_","d","r","o","p","_","p","a","r","t","s">>, value |-> <<"1">>],
     [key |-> <<"i","n","d","e","x","_","g","r","a","n","u","l","a","r","i","t","y","_","b","y","t","e","s">>, value |-> <<"0">>]}

\* The Settings maps of up to MaxSettings entries, in every iteration order.
SettingsMaps ==
    UNION {Orders(entries) : entries \in {e \in SUBSET SettingEntries :
                                             Cardinality(e) <= MaxSettings}}

\* The tables rendered: with and without database, indexes and each of the
\* trailing clauses, columns and keys in more than one order.
RenderTables ==
    {[Name |-> <<"e","v","e","n","t","s">>, Database |-> database, Columns |-> columns, Indexes |-> indexes,
      Engine |-> [EngineType |-> "MergeTree"], PartitionBy |-> partitionBy,
      OrderBy |-> orderBy, Ttl |-> ttl, Settings |-> settings] :
        database \in {Nil, Ptr(<<"a","n","a","l","y","t","i","c","s">>)},
        columns \in {<<colId>>, <<colId, colTs>>, <<colTs, colId>>},
        indexes \in {<<>>, <<idxEmail, idxTs>>, <<idxTs, idxEmail>>},
        partitionBy \in Optional(<<"t","o","Y","Y","Y","Y","M","M","(","t","s",")">>),
        orderBy \in {<<>>, <<<<"c","i","t","y","H","a","s","h","6","4","(","i","d",","," ","t","s",")">>>>, <<id, <<"t","s">>>>, <<<<"t","s">>, id>>},
        ttl \in Optional(<<"t","s"," ","+"," ","I","N","T","E","R","V","A","L"," ","1"," ","M","O","N","T","H">>),
        settings \in SettingsMaps}

\* The actions rendered: the payloads have the shape the Differ gives them.
RenderActions ==
    {[Type |-> ActionCreateTable, Reason |-> ReasonCreateTable(t.Name),
      Payload |-> Iface(TypeTable, t)] : t \in RenderTables}
    \cup {[Type |-> ActionDropTable, Reason |-> ReasonDropTable(n),
           Payload |-> Iface(TypeString, n)] : n \in {users, legacy_table}}
    \cup {[Type |-> ActionAddColumn, Reason |-> ReasonAddColumn(n, c.Name),
           Payload |-> Iface(TypeMap, [table  |-> Iface(TypeString, n),
                                       column |-> Iface(TypeColumn, c)])] :
             n \in {users, products}, c \in RenderColumns \cup {colId, colTs}}
    \cup {[Type |-> ActionDropColumn, Reason |-> ReasonDropColumn(n, c),
           Payload |-> Iface(TypeMap, [table       |-> Iface(TypeString, n),
                                       column_name |-> Iface(TypeString, c)])] :
             n \in {users, products}, c \in {old_name, email}}

RenderInit ==
    /\ pc = "action"
    /\ sqlInput \in RenderActions
    /\ sqlOutput = Ok(<<>>)
    /\ sqlAgain = <<>>
    /\ desired = [Tables |-> <<>>] /\ current = [Tables |-> <<>>]
    /\ plan = <<>> /\ planErr = Nil /\ statements = Ok(<<>>) /\ rerun = NoRerun
    /\ db = <<>> /\ executed = 0 /\ omitted = 0
    /\ engineTable = NoTable /\ ddl = <<>> /\ parsed = Ok(NoEngine) /\ ddl2 = <<>>
    /\ NoParse /\ NoExecute /\ NoIntrospect /\ NoLoad

\* GenerateActionSQL(action)
DoGenerateActionSQL ==
    /\ pc = "action"
    /\ sqlOutput' = GenerateActionSQL(sqlInput)
    /\ pc' = "rendered"
    /\ UNCHANGED <<sqlInput, sqlAgain>>
    /\ UNCHANGED <<migrationVars, roundTripVars, parseVars, executeVars, introspectVars, loadVars>>

\* The columns that differ from column by one optional field, absent in column
\* and present with the empty string in them.
EmptiedColumns(column) ==
    {[column EXCEPT ![f] = Ptr(<<>>)] :
        f \in {g \in {"DefaultExpression", "Codec", "Comment"} : column[g] = Nil}}

\* The actions that differ from action by one optional field of one column,
\* absent in action and present with the empty string in them.
Emptied(action) ==
    IF action.Type = ActionCreateTable
    THEN UNION {{[action EXCEPT !.Payload.value.Columns[i] = c] :
                    c \in EmptiedColumns(action.Payload.value.Columns[i])} :
                i \in 1..Len(action.Payload.value.Columns)}
    ELSE IF action.Type = ActionAddColumn
    THEN {[action EXCEPT !.Payload.value["column"].value = c] :
             c \in EmptiedColumns(action.Payload.value["column"].value)}
    ELSE {}

\* GenerateActionSQL once more, of the CREATE_TABLE action whose Settings map
\* holds the same entries and is ranged over in any order.
RenderReordered ==
    /\ pc = "rendered"
    /\ sqlInput.Type = ActionCreateTable
    /\ \E settings \in Orders({sqlInput.Payload.value.Settings[i] :
                                 i \in 1..Len(sqlInput.Payload.value.Settings)}) :
          \E again \in {[sqlInput EXCEPT !.Payload.value.Settings = settings]} :
             sqlAgain' = [input |-> again, output |-> GenerateActionSQL(again)]
    /\ pc' = "rendered reordered"
    /\ UNCHANGED <<sqlInput, sqlOutput>>
    /\ UNCHANGED <<migrationVars, roundTripVars, parseVars, executeVars, introspectVars, loadVars>>

\* GenerateActionSQL once more, of the action with an absent field of a column
\* present and empty.
RenderEmptied ==
    /\ pc = "rendered"
    /\ \E again \in Emptied(sqlInput) :
          sqlAgain' = [input |-> again, output |-> GenerateActionSQL(again)]
    /\ pc' = "rendered emptied"
    /\ UNCHANGED <<sqlInput, sqlOutput>>
    /\ UNCHANGED <<migrationVars, roundTripVars, parseVars, executeVars, introspectVars, loadVars>>

RenderNext == DoGenerateActionSQL \/ RenderReordered \/ RenderEmptied

RenderSQL == RenderInit /\ [][RenderNext]_vars

(***************************************************************************)
(* Properties of the rendering                                             *)
(***************************************************************************)
\* text holds each of the pieces exactly once, and one after the other in the
\* order of pieces.
InOrder(text, pieces) ==
    /\ \A i \in 1..Len(pieces) : Cardinality(Occurrences(text, pieces[i])) = 1
    /\ \A i \in 1..(Len(pieces) - 1) :
          Index(text, pieces[i]) + Len(pieces[i]) <= Index(text, pieces[i + 1])

\* An optional string that holds a text, and one of which it is settled
\* whether it does: absent, or present with a text.
Filled(field) == field # Nil /\ Deref(field) # <<>>
Settled(field) == field = Nil \/ Filled(field)

\* A CREATE_TABLE action has been rendered.
CreateTableRendered == pc = "rendered" /\ sqlInput.Type = ActionCreateTable

\* The opening of the statement of a table.
Opening(t) ==
    <<"C","R","E","A","T","E"," ","T","A","B","L","E"," ">> \o (IF t.Database = Nil THEN <<"d","e","f","a","u","l","t">> ELSE Deref(t.Database))
    \o <<".">> \o t.Name \o <<" ","(">>

C23_WitnessOneKey ==
    /\ CreateTableRendered
    /\ sqlInput.Payload.value.OrderBy = <<<<"c","i","t","y","H","a","s","h","6","4","(","i","d",","," ","t","s",")">>>>

\* The SETTINGS clause of a statement: from its keyword to the end, empty if
\* the statement has none.
SettingsClause(text) ==
    IF Index(text, <<" ","S","E","T","T","I","N","G","S"," ">>) = -1 THEN <<>>
    ELSE Slice(text, Index(text, <<" ","S","E","T","T","I","N","G","S"," ">>), Len(text))

\* The text of one entry of a Settings map.
SettingText(entry) == entry.key \o <<" ","="," ">> \o entry.value

RECURSIVE TotalLen(_)
\* The sum of the lengths of the texts of a sequence.
TotalLen(texts) == IF texts = <<>> THEN 0 ELSE Len(Head(texts)) + TotalLen(Tail(texts))

\* C24 (SETTINGS determinism): the SETTINGS clause of a table with settings is
\* SETTINGS followed by the entries as <key> = <value>, each entry once,
\* separated by ", " and in the lexicographic order of the keys; and a second
\* rendering of the table with the same entries ranged over in any other order
\* gives the same statement, byte for byte.
C24_SettingsDeterminism ==
    /\ (CreateTableRendered /\ Len(sqlInput.Payload.value.Settings) > 0) =>
          \E m \in {sqlInput.Payload.value.Settings} :
          \E clause \in {SettingsClause(sqlOutput.val)} :
             /\ HasPrefix(clause, <<" ","S","E","T","T","I","N","G","S"," ">>)
             /\ \A i \in 1..Len(m) :
                   Cardinality(Occurrences(clause, SettingText(m[i]))) = 1
             /\ \A i, j \in 1..Len(m) :
                   StringLess(m[i].key, m[j].key)
                      => Index(clause, SettingText(m[i])) < Index(clause, SettingText(m[j]))
             /\ Len(clause) = Len(<<" ","S","E","T","T","I","N","G","S"," ">>) + TotalLen([i \in 1..Len(m) |-> SettingText(m[i])])
                                 + Len(<<","," ">>) * (Len(m) - 1)
    /\ pc = "rendered reordered" =>
          /\ sqlAgain.output = sqlOutput
          /\ SettingsClause(sqlAgain.output.val) = SettingsClause(sqlOutput.val)

\* C24 witness: a table whose two settings are ranged over with the greater
\* key first has been rendered, and rendered again with them in the other
\* order.
C24_Witness ==
    /\ pc = "rendered reordered"
    /\ Len(sqlInput.Payload.value.Settings) = 2
    /\ StringLess(sqlInput.Payload.value.Settings[2].key, sqlInput.Payload.value.Settings[1].key)
    /\ sqlAgain.input.Payload.value.Settings # sqlInput.Payload.value.Settings

\* The clause of an optional field that holds a text; nothing for an absent
\* field.
ClauseOf(before, field, after) ==
    IF field = Nil THEN <<>> ELSE before \o Deref(field) \o after

C25_WitnessCommentOnly ==
    /\ pc = "rendered"
    /\ sqlInput.Type = ActionAddColumn
    /\ sqlInput.Payload.value["column"].value.DefaultExpression = Nil
    /\ sqlInput.Payload.value["column"].value.Codec = Nil
    /\ Filled(sqlInput.Payload.value["column"].value.Comment)

C25_WitnessDrops ==
    /\ pc = "rendered"
    /\ sqlInput.Type \in {ActionDropTable, ActionDropColumn}

\* C26 (absent versus empty): a column with an optional field absent and the
\* column that differs from it only in having this field present with the
\* empty string are not rendered alike: the statement GenerateActionSQL gives
\* for an ADD_COLUMN or CREATE_TABLE action and the one it gives for the
\* action with the field emptied differ.
C26_AbsentAndEmptyStayDistinct ==
    pc = "rendered emptied" => sqlAgain.output # sqlOutput

(***************************************************************************)
(* The Loader: SchemaLoader.Load on the tables directory, then Differ.Plan *)
(***************************************************************************)
\* The most files of the tables directory.
MaxFiles == 3

\* filepath.Ext: the suffix of a file name from its last dot.
Ext(fileName) ==
    IF LastIndex(fileName, <<".">>) = -1 THEN <<>>
    ELSE Slice(fileName, LastIndex(fileName, <<".">>), Len(fileName))

\* The files the directory can hold: its name, and the Table its YAML
\* unmarshals to (Nil for a file unmarshalYAMLToProto fails on).  users.yaml
\* and users_v2.yaml both define a table named users.
SchemaFiles ==
    {[file |-> <<"R","E","A","D","M","E",".","m","d">>, table |-> Nil],
     [file |-> <<"b","r","o","k","e","n",".","y","a","m","l">>, table |-> Nil],
     [file |-> <<"l","e","g","a","c","y",".","y","m","l">>,
      table |-> Ptr(Table(legacy_table, <<colId>>, [EngineType |-> "Log"], <<>>))],
     [file |-> <<"p","r","o","d","u","c","t","s",".","y","a","m","l">>,
      table |-> Ptr(Table(products, <<colId, colName>>, [EngineType |-> "MergeTree"], <<id>>))],
     [file |-> <<"u","s","e","r","s",".","y","a","m","l">>,
      table |-> Ptr(Table(users, <<colId, colEmail>>, [EngineType |-> "MergeTree"], <<id>>))],
     [file |-> <<"u","s","e","r","s","_","v","2",".","y","a","m","l">>,
      table |-> Ptr(Table(users, <<colId, colOldName>>, [EngineType |-> "MergeTree"], <<id>>))]}

\* os.ReadDir: the entries of a directory, sorted by file name.
ReadDir(entries) ==
    LET names == SortStrings(CHOOSE s \in Orders({e.file : e \in entries}) : TRUE)
    IN  [i \in 1..Len(names) |-> CHOOSE e \in entries : e.file = names[i]]

\* The directories of at most MaxFiles files, as ReadDir lists them.
Directories ==
    {ReadDir(entries) : entries \in {d \in SUBSET SchemaFiles : Cardinality(d) <= MaxFiles}}

\* The files of a listing Load processes: those with extension .yaml or .yml.
YamlFiles(listing) ==
    LET selected == {k \in 1..Len(listing) : Ext(listing[k].file) \in {<<".","y","a","m","l">>, <<".","y","m","l">>}}
        nth(i)   == CHOOSE k \in selected : Cardinality({j \in selected : j < k}) = i - 1
    IN  [i \in 1..Cardinality(selected) |-> listing[nth(i)]]

\* SchemaLoader.Load on the listing of the tables directory: the error of the
\* first file that fails to unmarshal, or else state.Tables, the map in which
\* every file has stored its table under the table's name, a later file
\* replacing the table an earlier file stored under the same name.
Load(listing) ==
    LET yamls  == YamlFiles(listing)
        failed == {k \in 1..Len(yamls) : yamls[k].table = Nil}
    IN  IF failed # {}
        THEN Err(<<"f","a","i","l","e","d"," ","t","o"," ","p","r","o","c","e","s","s"," ","f","i","l","e"," ">>
                 \o yamls[CHOOSE k \in failed : \A j \in failed : k <= j].file)
        ELSE Ok([n \in {Deref(yamls[k].table).Name : k \in 1..Len(yamls)} |->
                    Deref(yamls[CHOOSE k \in 1..Len(yamls) :
                                   /\ Deref(yamls[k].table).Name = n
                                   /\ \A j \in (k + 1)..Len(yamls) :
                                         Deref(yamls[j].table).Name # n].table)])

\* The current states the loaded state is diffed against.
LoadCurrents ==
    {[Tables |-> <<>>],
     [Tables |-> <<Table(users, <<colId, colEmail>>, [EngineType |-> "MergeTree"], <<id>>)>>],
     [Tables |-> <<Table(users, <<colId>>, [EngineType |-> "MergeTree"], <<id>>),
                   Table(products, <<colId, colName>>, [EngineType |-> "MergeTree"], <<id>>)>>]}

LoadInit ==
    /\ pc = "directory"
    /\ files \in Directories
    /\ loadErr = Nil
    /\ desired = [Tables |-> <<>>]
    /\ current \in LoadCurrents
    /\ plan = <<>> /\ planErr = Nil /\ statements = Ok(<<>>) /\ rerun = NoRerun
    /\ db = <<>> /\ executed = 0 /\ omitted = 0
    /\ engineTable = NoTable /\ ddl = <<>> /\ parsed = Ok(NoEngine) /\ ddl2 = <<>>
    /\ NoParse /\ NoExecute /\ NoIntrospect /\ NoRender

\* schemaLoader.Load(): the desired state holds the tables of the map, or the
\* run ends with the error.
DoLoad ==
    /\ pc = "directory"
    /\ \E r \in {Load(files)} :
          IF r.err # Nil
          THEN /\ loadErr' = r.err
               /\ pc' = "load failed"
               /\ UNCHANGED desired
          ELSE /\ loadErr' = Nil
               /\ pc' = "loaded from files"
               /\ \E order \in Orders(DOMAIN r.val) :
                     desired' = [Tables |-> [i \in 1..Len(order) |-> r.val[order[i]]]]
    /\ UNCHANGED <<files, current, plan, planErr, statements, rerun, db, executed, omitted>>
    /\ UNCHANGED <<roundTripVars, parseVars, executeVars, introspectVars, renderVars>>

\* differ.Plan(desired, current) on the loaded state.
PlanLoaded ==
    /\ pc = "loaded from files"
    /\ \E iter \in IterationOrders(desired, current) :
          \E r \in {Plan(desired, current, iter)} :
             plan' = r.val.Actions /\ planErr' = r.err
    /\ pc' = "planned from files"
    /\ UNCHANGED <<files, loadErr, desired, current, statements, rerun, db, executed, omitted>>
    /\ UNCHANGED <<roundTripVars, parseVars, executeVars, introspectVars, renderVars>>

\* differ.Plan(desired, current) on a snapshot that holds the tables of all
\* the files, those of the same name too, in the order of the files.
PlanSnapshot ==
    /\ pc = "directory"
    /\ \A k \in 1..Len(YamlFiles(files)) : YamlFiles(files)[k].table # Nil
    /\ desired' = [Tables |-> [k \in 1..Len(YamlFiles(files)) |->
                                  Deref(YamlFiles(files)[k].table)]]
    /\ \E iter \in IterationOrders(desired', current) :
          \E r \in {Plan(desired', current, iter)} :
             plan' = r.val.Actions /\ planErr' = r.err
    /\ pc' = "planned from snapshot"
    /\ UNCHANGED <<files, loadErr, current, statements, rerun, db, executed, omitted>>
    /\ UNCHANGED <<roundTripVars, parseVars, executeVars, introspectVars, renderVars>>

LoadNext == DoLoad \/ PlanLoaded \/ PlanSnapshot

LoadAndPlan == LoadInit /\ [][LoadNext]_vars

\* The listing holds two files that define a table of the same name.
DuplicateNames ==
    \E j, k \in 1..Len(YamlFiles(files)) :
        /\ j < k
        /\ YamlFiles(files)[j].table # Nil /\ YamlFiles(files)[k].table # Nil
        /\ Deref(YamlFiles(files)[j].table).Name = Deref(YamlFiles(files)[k].table).Name

\* C27 (duplicate table names): when two files of the directory define a table
\* of the same name, Load returns an error, and when a snapshot holds two
\* tables of the same name, Plan returns an error: neither goes on with only
\* the last of the two.
C27_DuplicateNamesRejected ==
    /\ (pc \in {"loaded from files", "planned from files"} /\ loadErr = Nil) => ~ DuplicateNames
    /\ (pc = "planned from snapshot" /\ DuplicateNames) => planErr # Nil

(***************************************************************************)
(* Properties of the plans of the Differ                                   *)
(***************************************************************************)
\* The payload of an action has the shape GenerateActionSQL requires of its
\* type.
Shaped(a) ==
    \/ a.Type = ActionCreateTable /\ a.Payload.type = TypeTable
    \/ a.Type = ActionDropTable /\ a.Payload.type = TypeString
    \/ /\ a.Type = ActionAddColumn
       /\ a.Payload.type = TypeMap
       /\ AssertsAs(a.Payload, "table", TypeString)
       /\ AssertsAs(a.Payload, "column", TypeColumn)
    \/ /\ a.Type = ActionDropColumn
       /\ a.Payload.type = TypeMap
       /\ AssertsAs(a.Payload, "table", TypeString)
       /\ AssertsAs(a.Payload, "column_name", TypeString)

\* GenerateSQL has been called on the plan.
Generated == pc \notin {"loaded", "planned"}

\* C28 (Differ output is renderable): every action of a plan of the Differ has
\* the payload its type requires; GenerateSQL of the plan returns no error and
\* does not panic, and it returns as many statements as the plan has actions,
\* statement i being the non-empty DDL of action i.
C28_PlanIsRenderable ==
    /\ Planned => \A i \in 1..Len(plan) : Shaped(plan[i])
    /\ Generated =>
          /\ statements.err = Nil /\ ~ statements.panic
          /\ Len(statements.val) = Len(plan)
          /\ \A i \in 1..Len(plan) :
                /\ statements.val[i] # <<>>
                /\ GenerateActionSQL(plan[i]) = Ok(statements.val[i])

\* C28 witness: the statements of a plan with an action of each of the four
\* types have been generated.
C28_Witness ==
    /\ Generated
    /\ \A type \in {ActionCreateTable, ActionDropTable, ActionAddColumn, ActionDropColumn} :
          \E i \in 1..Len(plan) : plan[i].Type = type

\* The names of the tables of the two states.
AllTableNames == TableNames(desired) \cup TableNames(current)

\* The positions of the plan's column actions about the table n.
ColumnActionsOn(n) == ActionsOn(ActionAddColumn, n) \cup ActionsOn(ActionDropColumn, n)

\* C29 (plan consistency): in the plan of two states with unique table names
\* and unique column names, every action is about a table of the states; a
\* table has one CREATE_TABLE action, or one DROP_TABLE action, or column
\* actions only; no action occurs twice; and no column of a table is both
\* added and dropped, nor added or dropped twice.
C29_PlanConsistency ==
    (Planned /\ Valid(desired) /\ Valid(current)) =>
        /\ \A i \in 1..Len(plan) : ActionTable(plan[i]) \in AllTableNames
        /\ \A n \in AllTableNames :
              /\ Cardinality(ActionsOn(ActionCreateTable, n)) <= 1
              /\ Cardinality(ActionsOn(ActionDropTable, n)) <= 1
              /\ ActionsOn(ActionCreateTable, n) = {} \/ ActionsOn(ActionDropTable, n) = {}
              /\ (ActionsOn(ActionCreateTable, n) \cup ActionsOn(ActionDropTable, n)) # {}
                    => ColumnActionsOn(n) = {}
              /\ \A i, j \in ColumnActionsOn(n) :
                    ActionColumn(plan[i]) = ActionColumn(plan[j]) => i = j
        /\ \A i, j \in 1..Len(plan) : plan[i] = plan[j] => i = j

\* C29 witness: a plan creates a table, drops another, and both adds a column
\* to and drops a column from a third.
C29_Witness ==
    /\ Planned
    /\ \E n \in AllTableNames : ActionsOn(ActionCreateTable, n) # {}
    /\ \E n \in AllTableNames : ActionsOn(ActionDropTable, n) # {}
    /\ \E n \in AllTableNames :
          ActionsOn(ActionAddColumn, n) # {} /\ ActionsOn(ActionDropColumn, n) # {}

====
